---- MODULE Spec2Model ----
(***************************************************************************)
(* QRAttendanceScanner (js/scanner.js): the scan session, its duplicate    *)
(* prevention, the payload parser and the persistence calls with their     *)
(* remote-API / localStorage fallback.                                     *)
(*                                                                         *)
(* A string is a sequence of one-character strings.  The browser is        *)
(* single-threaded: every action below is one run-to-completion piece of   *)
(* a handler, from one suspension point (await, timer, event) to the next. *)
(***************************************************************************)
EXTENDS Bags, FiniteSets, Integers, Sequences, TLC

----------------------------------------------------------------------------
(* Characters and strings *)

\* null where a string is expected: no string, as a string is a sequence of
\* one-character strings.
NULL == <<"null">>

\* The white space that String.prototype.trim and the regex class \s strip
\* (the members of it that the payloads of this model can contain).
IsSpace(c) == c \in {" ", "\t", "\n", "\r"}

\* The line terminators the regex "." does not match.
IsLineTerminator(c) == c \in {"\n", "\r"}

UpperCase == <<"A","B","C","D","E","F","G","H","I","J","K","L","M",
               "N","O","P","Q","R","S","T","U","V","W","X","Y","Z">>
LowerCase == <<"a","b","c","d","e","f","g","h","i","j","k","l","m",
               "n","o","p","q","r","s","t","u","v","w","x","y","z">>

\* Case folding of the regex flag i.
Fold(c) ==
    IF \E i \in 1..Len(UpperCase) : UpperCase[i] = c
    THEN LowerCase[CHOOSE i \in 1..Len(UpperCase) : UpperCase[i] = c]
    ELSE c

Min(a, b) == IF a < b THEN a ELSE b

\* s.slice(i - 1): the suffix of s that starts at position i (1-based).
From(s, i) == SubSeq(s, i, Len(s))

\* Length of the longest prefix of s made of white space.
RECURSIVE SpacePrefix(_)
SpacePrefix(s) ==
    IF s = <<>> \/ ~IsSpace(Head(s)) THEN 0 ELSE 1 + SpacePrefix(Tail(s))

RECURSIVE SpaceSuffix(_)
SpaceSuffix(s) ==
    IF s = <<>> \/ ~IsSpace(s[Len(s)]) THEN 0
    ELSE 1 + SpaceSuffix(SubSeq(s, 1, Len(s) - 1))

\* String.prototype.trim
Trim(s) ==
    LET n == SpacePrefix(s)
    IN  IF n = Len(s) THEN <<>>
        ELSE SubSeq(s, n + 1, Len(s) - SpaceSuffix(s))

\* s.indexOf(c), 1-based; 0 when c does not occur in s.
IndexOf(s, c) ==
    IF \E i \in 1..Len(s) : s[i] = c
    THEN CHOOSE i \in 1..Len(s) : s[i] = c /\ \A j \in 1..(i - 1) : s[j] # c
    ELSE 0

HasLineTerminator(s) == \E i \in 1..Len(s) : IsLineTerminator(s[i])

\* Position of the last line terminator of s; 0 when it has none.
LastLineTerminator(s) ==
    IF HasLineTerminator(s)
    THEN CHOOSE i \in 1..Len(s) :
            /\ IsLineTerminator(s[i])
            /\ \A j \in (i + 1)..Len(s) : ~IsLineTerminator(s[j])
    ELSE 0

\* The regex tail  \s*(G+)  at the start of r, where \s* is greedy and gives
\* back characters only as far as the group needs: the position in r where
\* the group starts (at least one character is left for it).  0 for empty r.
GroupStart(r) == IF r = <<>> THEN 0 ELSE Min(SpacePrefix(r) + 1, Len(r))

\* The regex tail  \s*(.+)$  on r: the captured group, or <<>> when the tail
\* does not match (a captured group has at least one character).  "." matches no line
\* terminator, so the group has to start after the last one, and \s* has to
\* reach that far.
DotPlusToEnd(r) ==
    LET g == GroupStart(r)
    IN  IF r = <<>> \/ g <= LastLineTerminator(r) THEN <<>> ELSE From(r, g)

\* The regex tail  \s*(.+)  on r (no $): the group runs up to the first line
\* terminator after its start.  <<>> when the tail does not match.
DotPlus(r) ==
    IF r = <<>> THEN <<>>
    ELSE LET \* starts the backtracking of \s* can reach, greedy first
             starts == {g \in 1..GroupStart(r) : ~IsLineTerminator(r[g])}
         IN  IF starts = {} THEN <<>>
             ELSE LET g    == CHOOSE x \in starts : \A y \in starts : y <= x
                      rest == From(r, g)
                      stop == IF HasLineTerminator(rest)
                              THEN CHOOSE i \in 1..Len(rest) :
                                     /\ IsLineTerminator(rest[i])
                                     /\ \A j \in 1..(i - 1) :
                                            ~IsLineTerminator(rest[j])
                              ELSE Len(rest) + 1
                  IN  SubSeq(rest, 1, stop - 1)

----------------------------------------------------------------------------
(* parseQRContent *)

Str_name     == <<"n","a","m","e">>
Str_country  == <<"c","o","u","n","t","r","y">>
Str_lastName == <<"l","a","s","t","N","a","m","e">>
Str_firstName == <<"f","i","r","s","t","N","a","m","e">>
CommaSpace   == <<",", " ">>

FoldAll(s) == [i \in 1..Len(s) |-> Fold(s[i])]

\* Does s continue, from position i on, with the literal lit (flag i)?
LiteralAt(s, i, lit) ==
    /\ i + Len(lit) - 1 <= Len(s)
    /\ FoldAll(SubSeq(s, i, i + Len(lit) - 1)) = FoldAll(lit)

Identity(n, c) == [name |-> n, country |-> c]
EmptyIdentity == Identity(<<>>, <<>>)

\* The result of one strategy: no match, or the identity it returns.
NoMatch == [matched |-> FALSE]
Match(n, c) == [matched |-> TRUE, identity |-> Identity(n, c)]

\* Strategy 1 with a country that starts after the last comma of the payload
ThreePartMatchLastComma(s) ==
    LET c1 == IndexOf(s, ",")
    IN  IF c1 <= 1 THEN NoMatch
        ELSE LET rest1 == From(s, c1 + 1)
                 c2    == IndexOf(rest1, ",")
             IN  IF c2 <= 1 THEN NoMatch
                 ELSE LET seg   == SubSeq(rest1, 1, c2 - 1)
                          g2    == From(seg, GroupStart(seg))
                          tail  == From(rest1, c2 + 1)
                          commas == {i \in 1..Len(tail) : tail[i] = ","}
                          last  == IF commas = {} THEN 0
                                   ELSE CHOOSE i \in commas : \A j \in commas : j <= i
                          g3    == DotPlusToEnd(From(tail, last + 1))
                      IN  IF g3 = <<>> THEN NoMatch
                          ELSE Match(Trim(SubSeq(s, 1, c1 - 1)) \o CommaSpace
                                         \o Trim(g2),
                                     Trim(g3))

\* Strategy 1: qrData.match(/^([^,]+),\s*([^,]+),\s*(.+)$/), then the trims.
ThreePartMatch(s) ==
    LET c1 == IndexOf(s, ",")
    IN  IF c1 <= 1 THEN NoMatch
        ELSE LET rest1 == From(s, c1 + 1)
                 c2    == IndexOf(rest1, ",")
             IN  IF c2 <= 1 THEN NoMatch
                 ELSE LET seg == SubSeq(rest1, 1, c2 - 1)
                          g2  == From(seg, GroupStart(seg))
                          g3  == DotPlusToEnd(From(rest1, c2 + 1))
                      IN  IF g3 = <<>> THEN NoMatch
                          ELSE Match(Trim(SubSeq(s, 1, c1 - 1)) \o CommaSpace
                                         \o Trim(g2),
                                     Trim(g3))

\* Strategy 2 at one start position k of the search:
\* /Name:\s*([^,]+),\s*Country:\s*(.+)/i
LabeledMatchAt(s, k) ==
    IF ~LiteralAt(s, k, Str_name \o <<":">>) THEN NoMatch
    ELSE LET after == From(s, k + 5)
             c     == IndexOf(after, ",")
         IN  IF c <= 1 THEN NoMatch
             ELSE LET seg   == SubSeq(after, 1, c - 1)
                      g1    == From(seg, GroupStart(seg))
                      restc == From(after, c + 1)
                      w     == SpacePrefix(restc)
                  IN  IF ~LiteralAt(restc, w + 1, Str_country \o <<":">>) THEN NoMatch
                      ELSE LET g2 == DotPlus(From(restc, w + 9))
                           IN  IF g2 = <<>> THEN NoMatch
                               ELSE Match(Trim(g1), Trim(g2))

\* Strategy 2: the leftmost position where the unanchored pattern matches.
LabeledMatch(s) ==
    LET hits == {k \in 1..Len(s) : LabeledMatchAt(s, k).matched}
    IN  IF hits = {} THEN NoMatch
        ELSE LabeledMatchAt(s, CHOOSE k \in hits : \A j \in hits : k <= j)

\* Strategy 3: qrData.match(/^([^,]+),\s*(.+)$/)
SimpleMatch(s) ==
    LET c1 == IndexOf(s, ",")
    IN  IF c1 <= 1 THEN NoMatch
        ELSE LET g2 == DotPlusToEnd(From(s, c1 + 1))
             IN  IF g2 = <<>> THEN NoMatch
                 ELSE Match(Trim(SubSeq(s, 1, c1 - 1)), Trim(g2))

\* qrData.split('\n')
RECURSIVE SplitLines(_)
SplitLines(s) ==
    LET i == IndexOf(s, "\n")
    IN  IF i = 0 THEN <<s>>
        ELSE <<SubSeq(s, 1, i - 1)>> \o SplitLines(From(s, i + 1))

\* .filter(line => line.trim())
RECURSIVE NonBlank(_)
NonBlank(ls) ==
    IF ls = <<>> THEN <<>>
    ELSE IF Trim(Head(ls)) = <<>> THEN NonBlank(Tail(ls))
         ELSE <<Head(ls)>> \o NonBlank(Tail(ls))

\* Strategy 5 for payloads of exactly three or exactly two lines
MultiLineExact(s) ==
    LET lines == NonBlank(SplitLines(s))
    IN  IF Len(lines) = 3
        THEN Match(Trim(lines[1]) \o CommaSpace \o Trim(lines[2]), Trim(lines[3]))
        ELSE IF Len(lines) = 2
             THEN Match(Trim(lines[1]), Trim(lines[2]))
             ELSE NoMatch

\* Strategy 5: qrData.split('\n').filter(line => line.trim())
MultiLine(s) ==
    LET lines == NonBlank(SplitLines(s))
    IN  IF Len(lines) >= 3
        THEN Match(Trim(lines[1]) \o CommaSpace \o Trim(lines[2]), Trim(lines[3]))
        ELSE IF Len(lines) >= 2
             THEN Match(Trim(lines[1]), Trim(lines[2]))
             ELSE NoMatch

----------------------------------------------------------------------------
(* JSON.parse, for strategy 4.  The grammar covered: objects, strings        *)
(* without escapes, unsigned integers, true, false, null, and JSON white     *)
(* space.  Arrays, escapes, fractions and signs are not in the payloads of   *)
(* this model.                                                               *)

Digits == {"0","1","2","3","4","5","6","7","8","9"}
Str_true  == <<"t","r","u","e">>
Str_false == <<"f","a","l","s","e">>
Str_null  == <<"n","u","l","l">>

JsonFail == [ok |-> FALSE]
JsonOk(i, v) == [ok |-> TRUE, next |-> i, val |-> v]

\* First position >= i of s that holds no JSON white space.
RECURSIVE SkipWs(_, _)
SkipWs(s, i) == IF i <= Len(s) /\ IsSpace(s[i]) THEN SkipWs(s, i + 1) ELSE i

ExactAt(s, i, lit) ==
    i + Len(lit) - 1 <= Len(s) /\ SubSeq(s, i, i + Len(lit) - 1) = lit

\* A string literal whose opening quote is at position i: body is what
\* stands between the quotes, q the offset of the closing quote.
JsonStringBody(i, q, body) ==
    IF HasLineTerminator(body) \/ IndexOf(body, "\t") # 0 \/ IndexOf(body, "\\") # 0
    THEN JsonFail
    ELSE JsonOk(i + q + 1, [t |-> "str", v |-> body])

JsonStringClosed(i, rest, q) ==
    IF q = 0 THEN JsonFail ELSE JsonStringBody(i, q, SubSeq(rest, 1, q - 1))

JsonStringRest(i, rest) == JsonStringClosed(i, rest, IndexOf(rest, "\""))

JsonString(s, i) ==
    IF i > Len(s) \/ s[i] # "\"" THEN JsonFail ELSE JsonStringRest(i, From(s, i + 1))

RECURSIVE DigitRun(_, _)
DigitRun(s, i) == IF i <= Len(s) /\ s[i] \in Digits THEN 1 + DigitRun(s, i + 1) ELSE 0

\* An unsigned integer of n digits at position i (no leading zero unless it
\* is "0").
JsonDigits(s, i, n) ==
    IF n = 0 \/ (n > 1 /\ s[i] = "0") THEN JsonFail
    ELSE JsonOk(i + n, [t |-> "prim",
                        truthy |-> \E j \in i..(i + n - 1) : s[j] # "0"])

JsonNumber(s, i) == JsonDigits(s, i, DigitRun(s, i))

RECURSIVE JsonValue(_, _)
RECURSIVE JsonValueAt(_, _)
RECURSIVE JsonObject(_, _, _)
RECURSIVE JsonMembers(_, _, _)
RECURSIVE JsonMemberKey(_, _, _)
RECURSIVE JsonMemberColon(_, _, _, _)
RECURSIVE JsonMemberValue(_, _, _, _)
RECURSIVE JsonMemberEnd(_, _, _)

\* The members of an object after its "{" (or after a ","), up to its "}":
\* a key, a colon, a value, then "}" or "," and the next member.
JsonMembers(s, i, acc) == JsonMemberKey(s, acc, JsonString(s, SkipWs(s, i)))

JsonMemberKey(s, acc, k) ==
    IF ~k.ok THEN JsonFail ELSE JsonMemberColon(s, acc, k, SkipWs(s, k.next))

JsonMemberColon(s, acc, k, c) ==
    IF c > Len(s) \/ s[c] # ":" THEN JsonFail
    ELSE JsonMemberValue(s, acc, k, JsonValue(s, c + 1))

JsonMemberValue(s, acc, k, v) ==
    IF ~v.ok THEN JsonFail
    ELSE JsonMemberEnd(s, Append(acc, <<k.val.v, v.val>>), SkipWs(s, v.next))

JsonMemberEnd(s, acc, e) ==
    IF e > Len(s) THEN JsonFail
    ELSE IF s[e] = "}" THEN JsonOk(e + 1, [t |-> "obj", m |-> acc])
    ELSE IF s[e] = "," THEN JsonMembers(s, e + 1, acc)
    ELSE JsonFail

\* An object whose "{" is at position j; e is the first position after it
\* that holds no white space.
JsonObject(s, j, e) ==
    IF e <= Len(s) /\ s[e] = "}"
    THEN JsonOk(e + 1, [t |-> "obj", m |-> <<>>])
    ELSE JsonMembers(s, j + 1, <<>>)

\* A JSON value that starts at position j.
JsonValueAt(s, j) ==
    IF j > Len(s) THEN JsonFail
    ELSE IF s[j] = "{" THEN JsonObject(s, j, SkipWs(s, j + 1))
    ELSE IF s[j] = "\"" THEN JsonString(s, j)
    ELSE IF s[j] \in Digits THEN JsonNumber(s, j)
    ELSE IF ExactAt(s, j, Str_true)
         THEN JsonOk(j + 4, [t |-> "prim", truthy |-> TRUE])
    ELSE IF ExactAt(s, j, Str_false)
         THEN JsonOk(j + 5, [t |-> "prim", truthy |-> FALSE])
    ELSE IF ExactAt(s, j, Str_null) THEN JsonOk(j + 4, [t |-> "null"])
    ELSE JsonFail

\* A JSON value that starts at or after position i (leading white space skipped).
JsonValue(s, i) == JsonValueAt(s, SkipWs(s, i))

\* The value v read from the start of s is all of s but white space
JsonWhole(s, v) == IF v.ok /\ SkipWs(s, v.next) > Len(s) THEN v ELSE JsonFail

\* JSON.parse(s): JsonFail when it throws a SyntaxError.
JsonParse(s) == JsonWhole(s, JsonValue(s, 1))

Undefined == [t |-> "undefined"]

\* The last of the positions hits of the members m
LastMember(m, hits) ==
    IF hits = {} THEN Undefined
    ELSE m[CHOOSE i \in hits : \A j \in hits : j <= i][2]

\* jsonData[key]: the last member of that name, undefined when there is none
\* or when jsonData is no object.
Member(val, key) ==
    IF val.t # "obj" THEN Undefined
    ELSE LastMember(val.m, {i \in 1..Len(val.m) : val.m[i][1] = key})

\* ToBoolean
Truthy(v) ==
    CASE v.t = "str"  -> v.v # <<>>
      [] v.t = "obj"  -> TRUE
      [] v.t = "prim" -> v.truthy
      [] OTHER        -> FALSE

\* The two tests of strategy 4 on the fields of jsonData.  .trim() on a
\* value that is no string throws.
JsonFields(n, c, ln, fn) ==
    IF Truthy(n) /\ Truthy(c)
    THEN IF n.t = "str" /\ c.t = "str"
         THEN Match(Trim(n.v), Trim(c.v))
         ELSE NoMatch
    ELSE IF Truthy(ln) /\ Truthy(fn) /\ Truthy(c)
    THEN IF ln.t = "str" /\ fn.t = "str" /\ c.t = "str"
         THEN Match(Trim(ln.v) \o CommaSpace \o Trim(fn.v), Trim(c.v))
         ELSE NoMatch
    ELSE NoMatch

\* Strategy 4 without its try block: a syntax error of JSON.parse leaves
\* parseQRContent with the error in place of an identity
JsonDataEscapes(p) ==
    IF ~p.ok THEN Match(<<"SyntaxError">>, <<>>)
    ELSE IF p.val.t = "null" THEN NoMatch
    ELSE JsonFields(Member(p.val, Str_name), Member(p.val, Str_country),
                    Member(p.val, Str_lastName), Member(p.val, Str_firstName))

\* Strategy 4 on jsonData = p, the result of JSON.parse
JsonData(p) ==
    IF ~p.ok \/ p.val.t = "null" THEN NoMatch
    ELSE JsonFields(Member(p.val, Str_name), Member(p.val, Str_country),
                    Member(p.val, Str_lastName), Member(p.val, Str_firstName))

\* Strategy 4: the try block around JSON.parse.  Any exception (a syntax
\* error, a property read on null, .trim on a value that is no string) leaves
\* the block without a result.
JsonMatch(s) == JsonData(JsonParse(s))

\* The five results tried with the two-part strategy before the three-part one
FirstMatchSimpleFirst(m1, m2, m3, m4, m5) ==
    IF m3.matched THEN m3.identity
    ELSE IF m1.matched THEN m1.identity
    ELSE IF m2.matched THEN m2.identity
    ELSE IF m4.matched THEN m4.identity
    ELSE IF m5.matched THEN m5.identity
    ELSE EmptyIdentity

\* The identity of the first of the five results that is a match
FirstMatch(m1, m2, m3, m4, m5) ==
    IF m1.matched THEN m1.identity
    ELSE IF m2.matched THEN m2.identity
    ELSE IF m3.matched THEN m3.identity
    ELSE IF m4.matched THEN m4.identity
    ELSE IF m5.matched THEN m5.identity
    ELSE EmptyIdentity

\* parseQRContent(qrData): the first strategy that matches, in the order of
\* the code; { name: '', country: '' } when none does.
parseQRContent(qrData) ==
    FirstMatch(ThreePartMatch(qrData), LabeledMatch(qrData), SimpleMatch(qrData),
               JsonMatch(qrData), MultiLine(qrData))

----------------------------------------------------------------------------
(* The session: constants and bounds *)

scanCooldown == 2000        \* this.scanCooldown, in ms
ReadmeCooldown == 3000      \* README: "3-second cooldown to prevent duplicate scans"
ResumeDelay  == 1000        \* setTimeout(() => { this.scanning = true }, 1000)
TestApiDelay == 2000        \* setTimeout(() => { scanner.testAPI() }, 2000)
LoadLimit    == 100         \* tables/attendance?sort=scan_timestamp&limit=100
BulkLimit    == 1000        \* tables/attendance?limit=1000

\* The clock of the model advances in steps of TickMs.
TickMs == ResumeDelay

MaxTicks    == 2            \* the clock stops after MaxTicks steps
MaxRecords  == 2            \* attendance records created in one behaviour
MaxInFlight == 1            \* the user waits while MaxInFlight requests are in flight
MaxOverlap  == 2            \* the same, in the session with overlapping requests
MaxStored   == 101          \* records the remote table holds when the page is opened
MaxPart     == 2            \* characters of one part of a comma-separated payload
MaxLines    == 4            \* lines of a multi-line payload
MaxBulk     == 1001         \* records in the table when the page is opened for a bulk export
MaxPolling  == 2            \* polling timers active when the user switches the camera

\* addTestRecord: `${testLastName}, ${testFirstName}, ${testCountry}`
TestQR ==
    <<"T","E","S","T","L","A","S","T",",", " ","T","e","s","t","F","i","r","s","t",
      ",", " ","T","e","s","t"," ","C","o","u","n","t","r","y">>

\* A payload of the two-part form, one that no strategy matches, and one
\* of the two-part form whose second part is blank.
PayloadAB == <<"a", ",", "b">>
PayloadX  == <<"x">>
PayloadA  == <<"a", ",", " ">>

\* The payloads the decoder reads in this model.
Payloads == {PayloadAB, PayloadX, PayloadA}

VARIABLES
    now,              \* Date.now(), ms since the page was loaded
    timers,           \* pending setTimeout callbacks: [due, what]
    scanning,         \* this.scanning
    stream,           \* this.stream: "none" (null) or the facing mode it was acquired with
    currentCamera,    \* this.currentCamera
    video,            \* the video element: srcObject, pending loadedmetadata, its handler
    scanInterval,     \* this.scanInterval is not null
    intervals,        \* setInterval timers that are running
    disabled,         \* startBtn / stopBtn / switchCameraBtn .disabled
    lastScannedCode,  \* this.lastScannedCode
    lastScanTime,     \* this.lastScanTime
    scannedQRCodes,   \* this.scannedQRCodes
    useLocalStorage,  \* this.useLocalStorage
    remote,           \* the records of the remote table tables/attendance
    local,            \* localStorage['qr_attendance_records']
    table,            \* ids of the rows of the attendance table (their Delete buttons)
    tasks,            \* bag of the requests in flight, each with its continuation
    nextId,           \* records created so far (generateId is taken to be unique)
    event             \* the step that led here, when it handled a payload: the
                      \* payload, the decision taken, what parseQRContent
                      \* returned for it and what the panel or the status
                      \* line showed; when it
                      \* ended an export: the rows of the CSV it wrote

vars == <<now, timers, scanning, stream, currentCamera, video, scanInterval,
          intervals, disabled, lastScannedCode, lastScanTime, scannedQRCodes,
          useLocalStorage, remote, local, table, tasks, nextId, event>>

cameraVars  == <<stream, currentCamera, video, scanInterval, intervals, disabled>>
storeVars   == <<remote, local>>

----------------------------------------------------------------------------
(* Records and stores *)

NoRecord ==
    [id |-> 0, name |-> <<>>, country |-> <<>>, scan_timestamp |-> 0,
     raw_qr_data |-> <<>>, created_at |-> 0, updated_at |-> 0]

\* attendanceData with the payload trimmed
AttendanceDataTrimmed(id, name, country, rawData, t) ==
    [id |-> id, name |-> name, country |-> country, scan_timestamp |-> t,
     raw_qr_data |-> Trim(rawData), created_at |-> t, updated_at |-> t]

\* attendanceData of saveAttendance
AttendanceData(id, name, country, rawData, t) ==
    [id |-> id, name |-> name, country |-> country, scan_timestamp |-> t,
     raw_qr_data |-> rawData, created_at |-> t, updated_at |-> t]

SeqToSet(q) == {q[i] : i \in 1..Len(q)}

RECURSIVE Without(_, _)
\* records.filter(record => record.id !== recordId)
Without(records, recordId) ==
    IF records = <<>> THEN <<>>
    ELSE IF Head(records).id = recordId THEN Without(Tail(records), recordId)
         ELSE <<Head(records)>> \o Without(Tail(records), recordId)

\* populateScannedQRCodes(records): the set it leaves in this.scannedQRCodes
populateScannedQRCodes(records) ==
    {r.raw_qr_data : r \in {x \in SeqToSet(records) : x.raw_qr_data # <<>>}}

\* The rows displayAttendanceRecords(records) draws
displayAttendanceRecords(records) == {r.id : r \in SeqToSet(records)}

\* GET tables/attendance?limit=n: the page of the table the API returns
ApiList(limit) == SubSeq(remote, 1, Min(limit, Len(remote)))

\* A request in flight.  phase: "sent" until the API has handled it, then
\* "ok" (response.ok and a readable body) or "failed" (a rejected fetch, a
\* status that is not ok, or a body that cannot be read).  exported: for a
\* request of the clearAllAttendance() that stopScanner awaits, the rows of
\* the CSV the exportToCSV() before it has written.
Request(op, rec, id, data, cont) ==
    [op |-> op, phase |-> "sent", rec |-> rec, id |-> id, data |-> data, cont |-> cont,
     exported |-> <<>>]

Spawn(bag, t) == bag (+) SetToBag({t})
Drop(bag, t)  == bag (-) SetToBag({t})
InFlight == BagCardinality(tasks)

LoadRequest == Request("load", NoRecord, 0, <<>>, "none")

\* loadAttendanceRecords() up to its first await, called when
\* useLocalStorage = uls, the requests in flight are bag, the local records
\* are loc and this.scannedQRCodes is set: what it leaves in tasks,
\* scannedQRCodes and the table.  In local mode it runs to its end.
loadAttendanceRecords(uls, bag, loc, set) ==
    IF ~uls
    THEN [tasks |-> Spawn(bag, LoadRequest), set |-> set, table |-> table]
    ELSE [tasks |-> bag, set |-> populateScannedQRCodes(loc),
          table |-> displayAttendanceRecords(loc)]

\* A step that handles no payload
NoEvent ==
    [payload |-> NULL, outcome |-> "none", parsed |-> EmptyIdentity, shown |-> "none",
     csv |-> <<>>]

Init ==
    /\ now = 0
    /\ timers = {[due |-> TestApiDelay, what |-> "testAPI"]}
    /\ scanning = FALSE
    /\ stream = "none"
    /\ currentCamera = "environment"
    /\ video = [src |-> "none", pending |-> FALSE, handler |-> "none"]
    /\ scanInterval = FALSE
    /\ intervals = 0
    /\ disabled = [start |-> FALSE, stop |-> TRUE, switch |-> TRUE]
    /\ lastScannedCode = NULL
    /\ lastScanTime = 0
    /\ scannedQRCodes = {}
    /\ useLocalStorage = FALSE
    /\ remote = <<>>
    /\ local = <<>>
    /\ table = {}
    /\ tasks = SetToBag({LoadRequest})
    /\ nextId = 0
    /\ event = NoEvent

----------------------------------------------------------------------------
(* Camera and scan loop *)

CameraRequested ==
    \E t \in BagToSet(tasks) : t.op \in {"startCamera", "fallbackCamera"}

\* startScanner(), to its await of getUserMedia
StartScanner ==
    /\ ~disabled.start
    /\ tasks' = Spawn(tasks, Request("startCamera", NoRecord, 0, <<>>, currentCamera))
    /\ UNCHANGED <<now, timers, scanning, cameraVars, lastScannedCode, lastScanTime,
                   scannedQRCodes, useLocalStorage, storeVars, table, nextId>>
    /\ event' = NoEvent

\* startScanner() after getUserMedia has resolved
CameraStarted(t) ==
    /\ t \in BagToSet(tasks) /\ t.op = "startCamera"
    /\ tasks' = Drop(tasks, t)
    /\ stream' = t.cont
    /\ video' = [src |-> t.cont, pending |-> TRUE, handler |-> "startScanning"]
    /\ disabled' = [start |-> TRUE, stop |-> FALSE, switch |-> FALSE]
    /\ UNCHANGED <<now, timers, scanning, currentCamera, scanInterval, intervals,
                   lastScannedCode, lastScanTime, scannedQRCodes, useLocalStorage,
                   storeVars, table, nextId>>
    /\ event' = NoEvent

\* this.currentCamera === 'environment' ? 'user' : 'environment'
Opposite(camera) == IF camera = "environment" THEN "user" ELSE "environment"

\* startScanner() when its first getUserMedia rejects: the catch block, to
\* its await of getUserMedia for the opposite camera
CameraFailed(t) ==
    /\ t \in BagToSet(tasks) /\ t.op = "startCamera"
    /\ tasks' = Spawn(Drop(tasks, t),
                      Request("fallbackCamera", NoRecord, 0, <<>>, Opposite(currentCamera)))
    /\ UNCHANGED <<now, timers, scanning, cameraVars, lastScannedCode, lastScanTime,
                   scannedQRCodes, useLocalStorage, storeVars, table, nextId>>
    /\ event' = NoEvent

\* The catch block with a fallback that leaves this.currentCamera as it is
FallbackStartedKeepsCamera(t) ==
    /\ t \in BagToSet(tasks) /\ t.op = "fallbackCamera"
    /\ tasks' = Drop(tasks, t)
    /\ stream' = t.cont
    /\ video' = [src |-> t.cont, pending |-> TRUE, handler |-> "startScanning"]
    /\ disabled' = [start |-> TRUE, stop |-> FALSE, switch |-> FALSE]
    /\ UNCHANGED <<now, timers, scanning, currentCamera, scanInterval, intervals,
                   lastScannedCode, lastScanTime, scannedQRCodes, useLocalStorage,
                   storeVars, table, nextId>>
    /\ event' = [NoEvent EXCEPT !.shown = "fallbackStarted"]

\* The catch block after getUserMedia has resolved for the opposite camera
FallbackStarted(t) ==
    /\ t \in BagToSet(tasks) /\ t.op = "fallbackCamera"
    /\ tasks' = Drop(tasks, t)
    /\ stream' = t.cont
    /\ video' = [src |-> t.cont, pending |-> TRUE, handler |-> "startScanning"]
    /\ currentCamera' = t.cont
    /\ disabled' = [start |-> TRUE, stop |-> FALSE, switch |-> FALSE]
    /\ UNCHANGED <<now, timers, scanning, scanInterval, intervals,
                   lastScannedCode, lastScanTime, scannedQRCodes, useLocalStorage,
                   storeVars, table, nextId>>
    /\ event' = [NoEvent EXCEPT !.shown = "fallbackStarted"]

\* The inner catch block: getUserMedia has rejected for the opposite camera too
FallbackFailed(t) ==
    /\ t \in BagToSet(tasks) /\ t.op = "fallbackCamera"
    /\ tasks' = Drop(tasks, t)
    /\ disabled' = [disabled EXCEPT !.switch = TRUE]
    /\ UNCHANGED <<now, timers, scanning, stream, currentCamera, video, scanInterval,
                   intervals, lastScannedCode, lastScanTime, scannedQRCodes,
                   useLocalStorage, storeVars, table, nextId>>
    /\ event' = [NoEvent EXCEPT !.shown = "cameraError"]

\* The Switch Camera button: switchCamera(), to its return or to its await
\* of getUserMedia.  A stream whose tracks have been stopped is "ended".
switchCamera ==
    /\ ~disabled.switch
    /\ currentCamera' = Opposite(currentCamera)
    /\ IF ~scanning
       THEN UNCHANGED <<stream, tasks>>
       ELSE /\ stream' = IF stream = "none" THEN "none" ELSE "ended"
            /\ tasks' = Spawn(tasks, Request("switchCamera", NoRecord, 0, <<>>,
                                             Opposite(currentCamera)))
    /\ UNCHANGED <<now, timers, scanning, video, scanInterval, intervals, disabled,
                   lastScannedCode, lastScanTime, scannedQRCodes, useLocalStorage,
                   storeVars, table, nextId>>
    /\ event' = NoEvent

\* switchCamera() after getUserMedia has resolved: its onloadedmetadata
\* only updates the status line
SwitchStarted(t) ==
    /\ t \in BagToSet(tasks) /\ t.op = "switchCamera"
    /\ tasks' = Drop(tasks, t)
    /\ stream' = t.cont
    /\ video' = [src |-> t.cont, pending |-> TRUE, handler |-> "status"]
    /\ UNCHANGED <<now, timers, scanning, currentCamera, scanInterval, intervals,
                   disabled, lastScannedCode, lastScanTime, scannedQRCodes,
                   useLocalStorage, storeVars, table, nextId>>
    /\ event' = NoEvent

\* switchCamera() when getUserMedia rejects: the catch block, which reverts
\* the setting and calls startScanner(), to its await of getUserMedia
SwitchFailed(t) ==
    /\ t \in BagToSet(tasks) /\ t.op = "switchCamera"
    /\ currentCamera' = Opposite(currentCamera)
    /\ tasks' = Spawn(Drop(tasks, t),
                      Request("startCamera", NoRecord, 0, <<>>, Opposite(currentCamera)))
    /\ UNCHANGED <<now, timers, scanning, stream, video, scanInterval, intervals,
                   disabled, lastScannedCode, lastScanTime, scannedQRCodes,
                   useLocalStorage, storeVars, table, nextId>>
    /\ event' = NoEvent

\* video.onloadedmetadata, which calls startScanning()
LoadedMetadata ==
    /\ video.pending
    /\ video' = [video EXCEPT !.pending = FALSE]
    /\ IF video.handler = "startScanning"
       THEN /\ scanning' = TRUE
            /\ scanInterval' = TRUE
            /\ intervals' = intervals + 1
       ELSE UNCHANGED <<scanning, scanInterval, intervals>>
    /\ UNCHANGED <<now, timers, stream, currentCamera, disabled, lastScannedCode,
                   lastScanTime, scannedQRCodes, useLocalStorage, storeVars, table,
                   tasks, nextId>>
    /\ event' = NoEvent

\* A callback of the setTimeout that leaves the scanning flag as it is
ResumeScanningLost(tm) ==
    /\ tm \in timers /\ tm.what = "resume" /\ tm.due <= now
    /\ timers' = timers \ {tm}
    /\ UNCHANGED <<now, scanning, cameraVars, lastScannedCode, lastScanTime,
                   scannedQRCodes, useLocalStorage, storeVars, table, tasks, nextId>>
    /\ event' = NoEvent

\* The callback of handleQRDetected's setTimeout
ResumeScanning(tm) ==
    /\ tm \in timers /\ tm.what = "resume" /\ tm.due <= now
    /\ timers' = timers \ {tm}
    /\ scanning' = TRUE
    /\ UNCHANGED <<now, cameraVars, lastScannedCode, lastScanTime, scannedQRCodes,
                   useLocalStorage, storeVars, table, tasks, nextId>>
    /\ event' = NoEvent

\* Time passes; a timer that is due runs before time passes further.  The
\* clock is followed while a timer is pending or a cooldown is running: at
\* other times no handler tells one instant from a later one.
Tick ==
    /\ now < MaxTicks * TickMs
    /\ timers # {} \/ (lastScannedCode # NULL /\ now - lastScanTime < scanCooldown)
    /\ \A tm \in timers : tm.due > now
    /\ now' = now + TickMs
    /\ UNCHANGED <<timers, scanning, cameraVars, lastScannedCode, lastScanTime,
                   scannedQRCodes, useLocalStorage, storeVars, table, tasks, nextId>>
    /\ event' = NoEvent

----------------------------------------------------------------------------
(* Scans *)

\* saveAttendance with a set that has lost the payload of the record
saveAttendanceForgets(name, country, rawData, set) ==
    LET attendanceData == AttendanceData(nextId + 1, name, country, rawData, now)
    IN  IF ~useLocalStorage
        THEN [tasks |-> Spawn(tasks, Request("save", attendanceData, 0, <<>>, "none")),
              local |-> local, set |-> set \ {rawData}, table |-> table]
        ELSE [tasks |-> tasks, local |-> Append(local, attendanceData),
              set |-> set \ {rawData}, table |-> table]

\* saveAttendance(name, country, rawData) up to its first await, called when
\* this.scannedQRCodes is set: what it leaves in tasks, local, scannedQRCodes
\* and the table.
saveAttendance(name, country, rawData, set) ==
    LET attendanceData == AttendanceData(nextId + 1, name, country, rawData, now)
    IN  IF ~useLocalStorage
        THEN [tasks |-> Spawn(tasks, Request("save", attendanceData, 0, <<>>, "none")),
              local |-> local, set |-> set, table |-> table]
        ELSE LET loc  == Append(local, attendanceData)
                 load == loadAttendanceRecords(TRUE, tasks, loc, set)
             IN  [tasks |-> load.tasks, local |-> loc, set |-> load.set,
                  table |-> load.table]

\* parsedData.name && parsedData.country
Complete(parsedData) == parsedData.name # <<>> /\ parsedData.country # <<>>

\* A test of processQRData that lets every payload through
ParsedAlways(qrData) == TRUE

\* The test of processQRData on what parseQRContent returns
Parsed(qrData) == Complete(parseQRContent(qrData))

\* What processQRData(qrData) shows in the scanResult panel:
\* displayScanResult, or displayError('Invalid QR Format', ...)
Shown(qrData) == IF Parsed(qrData) THEN "success" ELSE "invalid"

\* processQRData(qrData)
processQRData(qrData) ==
    LET parsedData == parseQRContent(qrData)
    IN  IF Parsed(qrData)
        THEN LET saved == saveAttendance(parsedData.name, parsedData.country, qrData,
                                         scannedQRCodes \cup {qrData})
             IN  /\ nextId < MaxRecords
                 /\ nextId' = nextId + 1
                 /\ tasks' = saved.tasks
                 /\ local' = saved.local
                 /\ scannedQRCodes' = saved.set
                 /\ table' = saved.table
        ELSE UNCHANGED <<nextId, tasks, local, scannedQRCodes, table>>

\* The decision with the duplicate check made before the cooldown check
OutcomeDuplicateFirst(qrData, t) ==
    IF qrData \in scannedQRCodes THEN "REJECT_DUPLICATE"
    ELSE IF lastScannedCode = qrData /\ t - lastScanTime < scanCooldown
    THEN "SUPPRESS_COOLDOWN"
    ELSE "ACCEPT"

\* The decision without the cooldown check
OutcomeNoCooldown(qrData, t) ==
    IF qrData \in scannedQRCodes THEN "REJECT_DUPLICATE" ELSE "ACCEPT"

\* The decision of handleQRDetected(qrData) at time t
Outcome(qrData, t) ==
    IF lastScannedCode = qrData /\ t - lastScanTime < scanCooldown
    THEN "SUPPRESS_COOLDOWN"
    ELSE IF qrData \in scannedQRCodes THEN "REJECT_DUPLICATE"
    ELSE "ACCEPT"

\* A duplicate reported with the panel of a parse failure
showDuplicateErrorAsInvalid(qrData) ==
    [payload |-> qrData, outcome |-> "REJECT_DUPLICATE", parsed |-> EmptyIdentity,
     shown |-> "invalid", csv |-> <<>>]

\* showDuplicateError(qrData): displayError('QR Code Already Scanned!', ...),
\* the status line and the overlay; the step it labels
showDuplicateError(qrData) ==
    [payload |-> qrData, outcome |-> "REJECT_DUPLICATE", parsed |-> EmptyIdentity,
     shown |-> "duplicate", csv |-> <<>>]

\* A tick of the scan interval in which jsQR decodes qrData:
\* scanFrame() and handleQRDetected(qrData)
handleQRDetected(qrData) ==
    /\ intervals > 0
    /\ scanning /\ video.src # "none" /\ ~video.pending
    /\ CASE Outcome(qrData, now) = "SUPPRESS_COOLDOWN" ->
              /\ event' = [payload |-> qrData, outcome |-> "SUPPRESS_COOLDOWN", csv |-> <<>>,
                           parsed |-> EmptyIdentity, shown |-> "none"]
              /\ UNCHANGED <<timers, scanning, lastScannedCode, lastScanTime,
                             scannedQRCodes, local, table, tasks, nextId>>
         [] Outcome(qrData, now) = "REJECT_DUPLICATE" ->
              /\ event' = showDuplicateError(qrData)
              /\ UNCHANGED <<timers, scanning, lastScannedCode, lastScanTime,
                             scannedQRCodes, local, table, tasks, nextId>>
         [] OTHER ->
              /\ scanning' = FALSE
              /\ lastScannedCode' = qrData
              /\ lastScanTime' = now
              /\ processQRData(qrData)
              /\ timers' = timers \cup {[due |-> now + ResumeDelay, what |-> "resume"]}
              /\ event' = [payload |-> qrData, outcome |-> "ACCEPT",
                           parsed |-> parseQRContent(qrData), shown |-> Shown(qrData),
                           csv |-> <<>>]
    /\ UNCHANGED <<now, cameraVars, useLocalStorage, remote>>

\* The Test button: diagnoseScanner() only logs; addTestRecord()
addTestRecord ==
    /\ processQRData(TestQR)
    /\ event' = [payload |-> TestQR, outcome |-> "TEST",
                 parsed |-> parseQRContent(TestQR), shown |-> Shown(TestQR),
                 csv |-> <<>>]
    /\ UNCHANGED <<now, timers, scanning, cameraVars, lastScannedCode, lastScanTime,
                   useLocalStorage, remote>>

\* clearScannedQRCodes()
clearScannedQRCodes ==
    /\ scannedQRCodes' = {}
    /\ UNCHANGED <<now, timers, scanning, cameraVars, lastScannedCode, lastScanTime,
                   useLocalStorage, storeVars, table, tasks, nextId>>
    /\ event' = NoEvent

----------------------------------------------------------------------------
(* Persistence: the handlers up to their first await *)

\* The localStorage branch of deleteRecord(recordId), run when the local
\* records are loc: what it leaves in local, scannedQRCodes and the table.
deleteLocal(recordId, loc) ==
    LET records == Without(loc, recordId)
        found   == {r \in SeqToSet(loc) : r.id = recordId}
        set     == scannedQRCodes \ {r.raw_qr_data : r \in found}
        load    == loadAttendanceRecords(TRUE, tasks, records, set)
    IN  [local |-> records, set |-> load.set, table |-> load.table]

\* deleteRecord(recordId), from a Delete button of the table, to its first
\* await; confirmed is the user's answer to confirm()
deleteRecord(recordId, confirmed) ==
    /\ recordId \in table
    /\ IF ~confirmed
       THEN /\ UNCHANGED <<tasks, local, scannedQRCodes, table>>
            /\ event' = NoEvent
       ELSE IF ~useLocalStorage
            THEN /\ tasks' = Spawn(tasks, Request("delete", NoRecord, recordId,
                                                  <<>>, "none"))
                 /\ UNCHANGED <<local, scannedQRCodes, table>>
                 /\ event' = NoEvent
            ELSE LET d == deleteLocal(recordId, local)
                 IN  /\ local' = d.local
                     /\ scannedQRCodes' = d.set
                     /\ table' = d.table
                     /\ UNCHANGED tasks
                     \* 'Record deleted successfully (offline mode)'
                     /\ event' = [NoEvent EXCEPT !.shown = "deletedOffline"]
    /\ UNCHANGED <<now, timers, scanning, cameraVars, lastScannedCode, lastScanTime,
                   useLocalStorage, remote, nextId>>

\* clearAllAttendance() from the point where the records to clear are known
\* (records, read from the API) and useLocalStorage = uls: what it leaves in
\* tasks, local, scannedQRCodes and the table.  bag: the requests in flight;
\* csv: the rows of the CSV written before the call.
clearRecords(uls, bag, records, csv) ==
    IF uls
    THEN \* localStorage.removeItem, scannedQRCodes.clear(), loadAttendanceRecords()
         LET load == loadAttendanceRecords(TRUE, bag, <<>>, {})
         IN  [tasks |-> load.tasks, local |-> <<>>, set |-> load.set,
              table |-> load.table]
    ELSE IF records # <<>>
         THEN \* the first DELETE of the loop over the records
              [tasks |-> Spawn(bag, [Request("clearDelete", NoRecord, Head(records).id,
                                             Tail(records), "none")
                                         EXCEPT !.exported = csv]),
               local |-> local, set |-> scannedQRCodes, table |-> table]
         ELSE LET load == loadAttendanceRecords(FALSE, bag, local, {})
              IN  [tasks |-> load.tasks, local |-> local, set |-> load.set,
                   table |-> load.table]

\* clearAllAttendance() to its first await, with useLocalStorage = uls
clearAllAttendance(uls, bag, csv) ==
    IF ~uls
    THEN [tasks |-> Spawn(bag, [Request("clearList", NoRecord, 0, <<>>, "none")
                                    EXCEPT !.exported = csv]),
          local |-> local, set |-> scannedQRCodes, table |-> table]
    ELSE clearRecords(TRUE, bag, <<>>, csv)

\* The digits of String(n)
DigitChar(d) == <<"0", "1", "2", "3", "4", "5", "6", "7", "8", "9">>[d + 1]

RECURSIVE Decimal(_)
\* String(n) of a natural number n, as row.join(',') writes index + 1
Decimal(n) ==
    IF n < 10 THEN <<DigitChar(n)>>
    ELSE Decimal(n \div 10) \o <<DigitChar(n % 10)>>

TwoDigits(n) == <<DigitChar((n \div 10) % 10), DigitChar(n % 10)>>

\* The name or country written as it is
QuotesKept(s) == s

RECURSIVE DoubleQuotes(_)
\* s.replace(/"/g, '""')
DoubleQuotes(s) ==
    IF Len(s) = 0 THEN <<>>
    ELSE IF Len(s) = 1 THEN (IF s[1] = "\"" THEN <<"\"", "\"">> ELSE s)
    ELSE DoubleQuotes(SubSeq(s, 1, Len(s) \div 2))
             \o DoubleQuotes(SubSeq(s, Len(s) \div 2 + 1, Len(s)))

\* `"${s}"`
CsvQuoted(s) == <<"\"">> \o s \o <<"\"">>

\* new Date(t).toLocaleDateString(), toLocaleTimeString() and
\* toLocaleString() of an instant t ms into the first hour of the epoch, in
\* the en-US locale and the UTC time zone
toLocaleDateString(t) == <<"1", "/", "1", "/", "1", "9", "7", "0">>
toLocaleTimeString(t) ==
    <<"1", "2", ":">> \o TwoDigits((t \div 60000) % 60) \o <<":">>
        \o TwoDigits((t \div 1000) % 60) \o <<" ", "A", "M">>
toLocaleString(t) == toLocaleDateString(t) \o <<",", " ">> \o toLocaleTimeString(t)

\* The row of one record: index is its index in the sorted records
CsvRow(record, index) ==
    <<Decimal(index + 1),
      CsvQuoted(DoubleQuotes(record.name)),
      CsvQuoted(DoubleQuotes(record.country)),
      CsvQuoted(toLocaleDateString(record.scan_timestamp)),
      CsvQuoted(toLocaleTimeString(record.scan_timestamp)),
      CsvQuoted(toLocaleString(record.scan_timestamp))>>

\* const headers = ['No.', 'Name', 'Country', 'Scan Date', 'Scan Time', 'Full Timestamp']
headers ==
    <<<<"N", "o", ".">>,
      <<"N", "a", "m", "e">>,
      <<"C", "o", "u", "n", "t", "r", "y">>,
      <<"S", "c", "a", "n", " ", "D", "a", "t", "e">>,
      <<"S", "c", "a", "n", " ", "T", "i", "m", "e">>,
      <<"F", "u", "l", "l", " ", "T", "i", "m", "e", "s", "t", "a", "m", "p">>>>

\* The records in the order they have
SortKept(records) == records

RECURSIVE NewestFirst(_, _)
\* The records whose scan_timestamp is in times: those of the latest time
\* in their order, then those of the time before, and so on
NewestFirst(records, times) ==
    IF times = {} THEN <<>>
    ELSE LET latest == CHOOSE t \in times : \A u \in times : u <= t
         IN  SelectSeq(records, LAMBDA r : r.scan_timestamp = latest)
                 \o NewestFirst(records, times \ {latest})

\* records.sort((a, b) => new Date(b.scan_timestamp) - new Date(a.scan_timestamp)):
\* Array.prototype.sort is stable
SortNewestFirst(records) ==
    NewestFirst(records, {records[i].scan_timestamp : i \in 1..Len(records)})

\* csvRows before csvRows.join('\n'), each row before row.join(',')
csvRows(records) ==
    <<headers>> \o [i \in 1..Len(records) |-> CsvRow(records[i], i - 1)]

RECURSIVE Joined(_, _)
\* parts.join(separator)
Joined(parts, separator) ==
    IF Len(parts) = 0 THEN <<>>
    ELSE IF Len(parts) = 1 THEN parts[1]
    ELSE parts[1] \o separator \o Joined(Tail(parts), separator)

\* exportToCSV() from the records it has read to its end: the alert when
\* there is none, and the file it writes otherwise
ExportEvent(records) ==
    IF Len(records) = 0
    THEN [NoEvent EXCEPT !.outcome = "EXPORT", !.shown = "noRecords"]
    ELSE [NoEvent EXCEPT !.outcome = "EXPORT", !.shown = "exported",
                         !.csv = csvRows(SortNewestFirst(records))]

\* The Export button: exportToCSV() to its first await.  In local mode it
\* runs to its end and changes no state of the session.
exportToCSV ==
    /\ IF ~useLocalStorage
       THEN /\ tasks' = Spawn(tasks, Request("export", NoRecord, 0, <<>>, "none"))
            /\ event' = NoEvent
       ELSE /\ UNCHANGED tasks
            /\ event' = ExportEvent(local)
    /\ UNCHANGED <<now, timers, scanning, cameraVars, lastScannedCode, lastScanTime,
                   scannedQRCodes, useLocalStorage, storeVars, table, nextId>>

\* stopScanner(), to its first await; download is the user's answer to the
\* confirm() shown when scannedQRCodes is not empty
stopScanner(download) ==
    /\ ~disabled.stop
    /\ scanning' = FALSE
    /\ scanInterval' = FALSE
    /\ intervals' = IF scanInterval THEN intervals - 1 ELSE intervals
    /\ stream' = "none"
    /\ video' = [video EXCEPT !.src = "none", !.pending = FALSE]
    /\ disabled' = [start |-> FALSE, stop |-> TRUE, switch |-> TRUE]
    /\ IF Cardinality(scannedQRCodes) > 0 /\ download
       THEN IF ~useLocalStorage
            THEN \* await this.exportToCSV(): its request, continued in clearAllAttendance
                 /\ tasks' = Spawn(tasks, Request("export", NoRecord, 0, <<>>, "stop"))
                 /\ UNCHANGED <<local, scannedQRCodes, table>>
                 /\ event' = NoEvent
            ELSE \* exportToCSV() runs to its end, then clearAllAttendance()
                 LET c == clearAllAttendance(TRUE, tasks, ExportEvent(local).csv)
                 IN  /\ tasks' = c.tasks
                     /\ local' = c.local
                     /\ scannedQRCodes' = c.set
                     /\ table' = c.table
                     /\ event' = ExportEvent(local)
       ELSE /\ UNCHANGED <<tasks, local, scannedQRCodes, table>>
            /\ event' = NoEvent
    /\ UNCHANGED <<now, timers, currentCamera, lastScannedCode, lastScanTime,
                   useLocalStorage, remote, nextId>>

\* The timer of the page: scanner.testAPI(), to its await of fetch
testAPI(tm) ==
    /\ tm \in timers /\ tm.what = "testAPI" /\ tm.due <= now
    /\ timers' = timers \ {tm}
    /\ tasks' = Spawn(tasks, Request("testAPI", NoRecord, 0, <<>>, "none"))
    /\ UNCHANGED <<now, scanning, cameraVars, lastScannedCode, lastScanTime,
                   scannedQRCodes, useLocalStorage, storeVars, table, nextId>>
    /\ event' = NoEvent

----------------------------------------------------------------------------
(* The remote API *)

HttpOps == {"load", "save", "delete", "export", "clearList", "clearDelete", "testAPI"}
Pending(t) == t \in BagToSet(tasks) /\ t.op \in HttpOps /\ t.phase = "sent"

Stored(recordId) == \E r \in SeqToSet(remote) : r.id = recordId

\* An API whose POST replaces the table by the new record
AppliedOverwrites(t) ==
    CASE t.op = "save" -> <<t.rec>>
      [] t.op \in {"delete", "clearDelete"} -> Without(remote, t.id)
      [] OTHER -> remote

\* What the API does to the table when it carries the request t out
Applied(t) ==
    CASE t.op = "save" -> Append(remote, t.rec)
      [] t.op \in {"delete", "clearDelete"} -> Without(remote, t.id)
      [] OTHER -> remote

\* The data of the API's answer to t
Answer(t) ==
    CASE t.op = "load" -> ApiList(LoadLimit)
      [] t.op \in {"export", "clearList"} -> ApiList(BulkLimit)
      [] t.op = "clearDelete" -> t.data
      [] OTHER -> <<>>

Answered(t, phase, data) == Spawn(Drop(tasks, t), [t EXCEPT !.phase = phase, !.data = data])

\* The API carries the request out and its answer arrives intact.  A DELETE
\* of a record the table does not hold is answered 404.
ApiServes(t) ==
    /\ Pending(t)
    /\ t.op \in {"delete", "clearDelete"} => Stored(t.id)
    /\ remote' = Applied(t)
    /\ tasks' = Answered(t, "ok", Answer(t))
    /\ UNCHANGED <<now, timers, scanning, cameraVars, lastScannedCode, lastScanTime,
                   scannedQRCodes, useLocalStorage, local, table, nextId>>
    /\ event' = NoEvent

\* The request fails before the API has changed anything: the network is
\* down, or the API answers with a status that is not ok.
ApiRejects(t) ==
    /\ Pending(t)
    /\ tasks' = Answered(t, "failed", t.data)
    /\ UNCHANGED <<now, timers, scanning, cameraVars, lastScannedCode, lastScanTime,
                   scannedQRCodes, useLocalStorage, storeVars, table, nextId>>
    /\ event' = NoEvent

\* The API carries a write out, but the client does not get the answer: the
\* connection drops, or response.json() rejects.
ApiAnswerLost(t) ==
    /\ Pending(t)
    /\ t.op = "save"
    /\ remote' = Applied(t)
    /\ tasks' = Answered(t, "failed", t.data)
    /\ UNCHANGED <<now, timers, scanning, cameraVars, lastScannedCode, lastScanTime,
                   scannedQRCodes, useLocalStorage, local, table, nextId>>
    /\ event' = NoEvent

----------------------------------------------------------------------------
(* Persistence: the handlers after their awaits *)

Arrived(t, op) == t \in BagToSet(tasks) /\ t.op = op /\ t.phase # "sent"

\* loadAttendanceRecords() after its fetch
LoadResponse(t) ==
    /\ Arrived(t, "load")
    /\ tasks' = Drop(tasks, t)
    /\ IF t.phase = "ok"
       THEN /\ scannedQRCodes' = populateScannedQRCodes(t.data)
            /\ table' = displayAttendanceRecords(t.data)
            /\ UNCHANGED useLocalStorage
       ELSE /\ useLocalStorage' = TRUE
            /\ scannedQRCodes' = populateScannedQRCodes(local)
            /\ table' = displayAttendanceRecords(local)
    /\ UNCHANGED <<now, timers, scanning, cameraVars, lastScannedCode, lastScanTime,
                   storeVars, nextId>>
    /\ event' = NoEvent

\* saveAttendance() after its fetch
SaveResponse(t) ==
    /\ Arrived(t, "save")
    /\ IF t.phase = "ok"
       THEN LET load == loadAttendanceRecords(useLocalStorage, Drop(tasks, t), local,
                                              scannedQRCodes)
            IN  /\ tasks' = load.tasks
                /\ scannedQRCodes' = load.set
                /\ table' = load.table
                /\ UNCHANGED <<useLocalStorage, local>>
       ELSE LET loc  == Append(local, t.rec)
                load == loadAttendanceRecords(TRUE, Drop(tasks, t), loc, scannedQRCodes)
            IN  /\ useLocalStorage' = TRUE
                /\ local' = loc
                /\ tasks' = load.tasks
                /\ scannedQRCodes' = load.set
                /\ table' = load.table
    /\ UNCHANGED <<now, timers, scanning, cameraVars, lastScannedCode, lastScanTime,
                   remote, nextId>>
    /\ event' = NoEvent

\* deleteRecord() after its fetch
DeleteResponse(t) ==
    /\ Arrived(t, "delete")
    /\ IF t.phase = "ok"
       THEN LET load == loadAttendanceRecords(useLocalStorage, Drop(tasks, t), local,
                                              scannedQRCodes)
            IN  /\ tasks' = load.tasks
                /\ scannedQRCodes' = load.set
                /\ table' = load.table
                /\ UNCHANGED <<useLocalStorage, local>>
                \* 'Record deleted successfully'
                /\ event' = [NoEvent EXCEPT !.shown = "deleted"]
       ELSE LET d == deleteLocal(t.id, local)
            IN  /\ useLocalStorage' = TRUE
                /\ tasks' = Drop(tasks, t)
                /\ local' = d.local
                /\ scannedQRCodes' = d.set
                /\ table' = d.table
                \* 'Record deleted successfully (offline mode)'
                /\ event' = [NoEvent EXCEPT !.shown = "deletedOffline"]
    /\ UNCHANGED <<now, timers, scanning, cameraVars, lastScannedCode, lastScanTime,
                   remote, nextId>>

\* exportToCSV() after its fetch and, when stopScanner awaits it, the call
\* of clearAllAttendance() that follows
ExportResponse(t) ==
    /\ Arrived(t, "export")
    /\ LET uls == useLocalStorage \/ t.phase = "failed"
       IN  /\ useLocalStorage' = uls
           /\ IF t.cont = "stop"
              THEN LET c == clearAllAttendance(uls, Drop(tasks, t),
                                               ExportEvent(IF uls THEN local
                                                           ELSE t.data).csv)
                   IN  /\ tasks' = c.tasks
                       /\ local' = c.local
                       /\ scannedQRCodes' = c.set
                       /\ table' = c.table
              ELSE /\ tasks' = Drop(tasks, t)
                   /\ UNCHANGED <<local, scannedQRCodes, table>>
           /\ event' = ExportEvent(IF uls THEN local ELSE t.data)
    /\ UNCHANGED <<now, timers, scanning, cameraVars, lastScannedCode, lastScanTime,
                   remote, nextId>>

\* clearAllAttendance() after the fetch of the records to clear
ClearListResponse(t) ==
    /\ Arrived(t, "clearList")
    /\ LET uls == useLocalStorage \/ t.phase = "failed"
           c   == clearRecords(uls, Drop(tasks, t),
                               IF t.phase = "ok" THEN t.data ELSE <<>>, t.exported)
       IN  /\ useLocalStorage' = uls
           /\ tasks' = c.tasks
           /\ local' = c.local
           /\ scannedQRCodes' = c.set
           /\ table' = c.table
    /\ UNCHANGED <<now, timers, scanning, cameraVars, lastScannedCode, lastScanTime,
                   remote, nextId>>
    /\ event' = NoEvent

\* clearAllAttendance() after one DELETE of its loop: the next DELETE, or
\* the end of the function.  The answer of the DELETE is not looked at.
ClearDeleteResponse(t) ==
    /\ Arrived(t, "clearDelete")
    /\ IF t.data # <<>>
       THEN /\ tasks' = Spawn(Drop(tasks, t),
                              [Request("clearDelete", NoRecord, Head(t.data).id,
                                       Tail(t.data), "none")
                                  EXCEPT !.exported = t.exported])
            /\ UNCHANGED <<scannedQRCodes, table>>
       ELSE LET load == loadAttendanceRecords(useLocalStorage, Drop(tasks, t), local, {})
            IN  /\ tasks' = load.tasks
                /\ scannedQRCodes' = load.set
                /\ table' = load.table
    /\ UNCHANGED <<now, timers, scanning, cameraVars, lastScannedCode, lastScanTime,
                   useLocalStorage, storeVars, nextId>>
    /\ event' = NoEvent

\* testAPI() after its fetch
TestApiResponse(t) ==
    /\ Arrived(t, "testAPI")
    /\ IF t.phase = "ok"
       THEN /\ useLocalStorage' = FALSE
            /\ tasks' = Drop(tasks, t)
            /\ UNCHANGED <<scannedQRCodes, table>>
       ELSE LET load == loadAttendanceRecords(TRUE, Drop(tasks, t), local,
                                              scannedQRCodes)
            IN  /\ useLocalStorage' = TRUE
                /\ tasks' = load.tasks
                /\ scannedQRCodes' = load.set
                /\ table' = load.table
    /\ UNCHANGED <<now, timers, scanning, cameraVars, lastScannedCode, lastScanTime,
                   storeVars, nextId>>
    /\ event' = NoEvent

----------------------------------------------------------------------------
(* The session *)

Api ==
    \E t \in BagToSet(tasks) : ApiServes(t) \/ ApiRejects(t) \/ ApiAnswerLost(t)

Responses ==
    \E t \in BagToSet(tasks) :
        \/ LoadResponse(t)
        \/ SaveResponse(t)
        \/ DeleteResponse(t)
        \/ ExportResponse(t)
        \/ ClearListResponse(t)
        \/ ClearDeleteResponse(t)
        \/ TestApiResponse(t)

\* The user starts something new while fewer than MaxInFlight requests are
\* in flight.
Ready == InFlight < MaxInFlight

Camera ==
    \/ Ready /\ ~CameraRequested /\ StartScanner
    \/ \E t \in BagToSet(tasks) : CameraStarted(t)
    \/ LoadedMetadata
    \/ Ready /\ \E download \in BOOLEAN : stopScanner(download)

User ==
    /\ Ready
    /\ \/ \E qrData \in Payloads : handleQRDetected(qrData)
       \/ addTestRecord
       \/ clearScannedQRCodes
       \/ exportToCSV
       \/ \E recordId \in 1..MaxRecords, confirmed \in BOOLEAN :
              deleteRecord(recordId, confirmed)

Timers ==
    \/ \E tm \in timers : ResumeScanning(tm) \/ testAPI(tm)
    \/ Tick

Next == Camera \/ User \/ Api \/ Responses \/ Timers

Spec == Init /\ [][Next]_vars

----------------------------------------------------------------------------
(* The session with requests that overlap: the user scans and deletes while
   up to MaxOverlap requests are in flight, and every request succeeds.  The
   decoder reads the test payload too, a second payload that parses. *)

Overlap == InFlight < MaxOverlap

RaceCamera ==
    \/ Overlap /\ ~CameraRequested /\ StartScanner
    \/ \E t \in BagToSet(tasks) : CameraStarted(t)
    \/ LoadedMetadata

RaceUser ==
    /\ Overlap
    /\ \/ \E qrData \in Payloads \cup {TestQR} : handleQRDetected(qrData)
       \/ \E recordId \in 1..MaxRecords : deleteRecord(recordId, TRUE)

RaceApi == \E t \in BagToSet(tasks) : ApiServes(t)

RaceResponses ==
    \E t \in BagToSet(tasks) :
        \/ LoadResponse(t)
        \/ SaveResponse(t)
        \/ DeleteResponse(t)
        \/ TestApiResponse(t)

NextRace == RaceCamera \/ RaceUser \/ RaceApi \/ RaceResponses \/ Timers

SpecRace == Init /\ [][NextRace]_vars

----------------------------------------------------------------------------
(* The session with its timers: the browser runs a timer callback once it is
   due, and the decoder reads payloads while the clock of the model can still
   reach the end of the pause that follows an accept. *)

Timely == now + ResumeDelay <= MaxTicks * TickMs

LiveUser ==
    /\ Ready
    /\ \/ Timely /\ \E qrData \in Payloads : handleQRDetected(qrData)
       \/ addTestRecord
       \/ clearScannedQRCodes
       \/ exportToCSV
       \/ \E recordId \in 1..MaxRecords, confirmed \in BOOLEAN :
              deleteRecord(recordId, confirmed)

NextLive == Camera \/ LiveUser \/ Api \/ Responses \/ Timers

SpecLive == Init /\ [][NextLive]_vars /\ WF_vars(Timers)

----------------------------------------------------------------------------
(* The session on a table that holds records of earlier sessions when the
   page is opened.  Every request succeeds and the user waits for the
   requests in flight. *)

\* The payload of the i-th record of the table: "a,b", "a,bb", ...
StoredPayload(i) == <<"a", ",">> \o [j \in 1..i |-> "b"]

\* The i-th record of the table, as saveAttendance has made it from its payload
StoredRecord(i) ==
    AttendanceData(MaxRecords + i, parseQRContent(StoredPayload(i)).name,
                   parseQRContent(StoredPayload(i)).country, StoredPayload(i), 0)

StoredTable(n) == [i \in 1..n |-> StoredRecord(i)]

\* The sizes of the table: empty, one record, and the sizes around the
\* limit of the GET of loadAttendanceRecords
StoreSizes == {n \in 0..MaxStored : n <= 1 \/ n >= LoadLimit}

InitStored ==
    /\ now = 0
    /\ timers = {[due |-> TestApiDelay, what |-> "testAPI"]}
    /\ scanning = FALSE
    /\ stream = "none"
    /\ currentCamera = "environment"
    /\ video = [src |-> "none", pending |-> FALSE, handler |-> "none"]
    /\ scanInterval = FALSE
    /\ intervals = 0
    /\ disabled = [start |-> FALSE, stop |-> TRUE, switch |-> TRUE]
    /\ lastScannedCode = NULL
    /\ lastScanTime = 0
    /\ scannedQRCodes = {}
    /\ useLocalStorage = FALSE
    /\ remote \in {StoredTable(n) : n \in StoreSizes}
    /\ local = <<>>
    /\ table = {}
    /\ tasks = SetToBag({LoadRequest})
    /\ nextId = 0
    /\ event = NoEvent

\* The decoder reads the payload of the first or of the last record of the
\* table, or a payload the table does not hold.
StoredUser ==
    /\ Ready
    /\ \/ \E qrData \in {StoredPayload(1), StoredPayload(Len(remote)), PayloadX} :
              handleQRDetected(qrData)
       \/ \E recordId \in 1..MaxRecords : deleteRecord(recordId, TRUE)

NextStored == RaceCamera \/ StoredUser \/ RaceApi \/ RaceResponses \/ Timers

SpecStored == InitStored /\ [][NextStored]_vars

----------------------------------------------------------------------------
(* The session in which the decoder reads one payload, of any of the forms
   parseQRContent knows.  Every request succeeds. *)

\* The parts of a comma-separated payload: the strings of up to MaxPart
\* characters that are not blank, with blanks and line breaks around a letter
PartChars == {"a", " ", "\n"}
Parts ==
    {x \in UNION {[1..n -> PartChars] : n \in 1..MaxPart} : Trim(x) # <<>>}

\* "X,Y,Z"
ThreePart(x, y, z) == x \o <<",">> \o y \o <<",">> \o z
ThreePartPayloads == {ThreePart(x, y, z) : x \in Parts, y \in Parts, z \in Parts}

\* The parts without a line break
CommaParts == {x \in Parts : ~HasLineTerminator(x)}

\* "X,Y,Z,W": a three-part payload whose last part holds a comma
FourPart(x, y, z, w) == ThreePart(x, y, z \o <<",">> \o w)
FourPartPayloads ==
    {FourPart(x, y, z, w) : x \in CommaParts, y \in CommaParts,
                            z \in CommaParts, w \in CommaParts}

\* "X,,Y": a two-part payload whose last part starts with a comma
TwoCommas(x, y) == x \o <<",", ",">> \o y
TwoCommaPayloads == {TwoCommas(x, y) : x \in CommaParts, y \in CommaParts}

\* "A, B, C, D"
PayloadABCD == <<"A", ",", " ", "B", ",", " ", "C", ",", " ", "D">>

\* "DOE, John, USA"
DoeJohnUsa ==
    <<"D","O","E",","," ","J","o","h","n",","," ","U","S","A">>

\* "<label1><v1>, <label2><v2>"
Labeled(l1, v1, l2, v2) == l1 \o v1 \o CommaSpace \o l2 \o v2

NameLabels    == {<<"N","a","m","e",":">>, <<"n","a","m","e",":">>}
CountryLabels == {<<"C","o","u","n","t","r","y",":">>, <<"C","O","U","N","T","R","Y",":">>}

\* The values of a labeled payload: "a", " a", " a b " and " a, b"
LabeledValues ==
    {<<"a">>, <<" ","a">>, <<" ","a"," ","b"," ">>, <<" ","a",","," ","b">>}

LabeledPayloads ==
    {Labeled(l1, v1, l2, v2) : l1 \in NameLabels, v1 \in LabeledValues,
                               l2 \in CountryLabels, v2 \in LabeledValues}

\* Payloads with one of the two labels only
HalfLabeledPayloads ==
    {Labeled(l1, v1, <<>>, v2) : l1 \in NameLabels, v1 \in LabeledValues,
                                v2 \in LabeledValues}
    \cup {Labeled(<<>>, v1, l2, v2) : v1 \in LabeledValues, l2 \in CountryLabels,
                                     v2 \in LabeledValues}

\* Does s hold the label lit somewhere, in any case?
HasLabel(s, lit) == \E k \in 1..Len(s) : LiteralAt(s, k, lit)

Quoted(s) == <<"\"">> \o s \o <<"\"">>

\* "key":"value"
JsonPair(key, value) == Quoted(key) \o <<":">> \o Quoted(value)

\* {"name":"<n>",<sep>"country":"<c>"<close>}
NameCountryJson(n, c, sep, close) ==
    <<"{">> \o JsonPair(Str_name, n) \o <<",">> \o sep
            \o JsonPair(Str_country, c) \o close \o <<"}">>

\* {"lastName":"<ln>",<sep>"firstName":"<fn>",<sep>"country":"<c>"<close>}
LastFirstJson(ln, fn, c, sep, close) ==
    <<"{">> \o JsonPair(Str_lastName, ln) \o <<",">> \o sep
            \o JsonPair(Str_firstName, fn) \o <<",">> \o sep
            \o JsonPair(Str_country, c) \o close \o <<"}">>

\* The white space of a JSON text: after the commas, and before the
\* closing brace
JsonSeparators == {<<>>, <<" ">>, <<"\n">>}
JsonClosings   == {<<>>, <<"\n">>}

JsonPayloads ==
    {NameCountryJson(<<"a">>, <<"b">>, sep, close) :
         sep \in JsonSeparators, close \in JsonClosings}
    \cup {LastFirstJson(<<"a">>, <<"b">>, <<"c">>, sep, close) :
              sep \in JsonSeparators, close \in JsonClosings}

\* Texts on which strategy 4 fails: the empty text, "null" (a property read
\* on null), "{" (a syntax error), {"name":"a"} (no country), and
\* {"name":1,"country":2<line break>} (trim on a number)
JsonMisses ==
    {<<>>, Str_null, <<"{">>,
     <<"{">> \o JsonPair(Str_name, <<"a">>) \o <<"}">>,
     <<"{">> \o Quoted(Str_name) \o <<":", "1", ",">> \o Quoted(Str_country)
            \o <<":", "2", "\n", "}">>}

\* Two and three lines
LinePayloads == {<<"a", "\n", "b">>, <<"a", "\n", "b", "\n", "c">>}

\* The lines of a multi-line payload: "a", " b" and a blank line
LineTexts == {<<"a">>, <<" ", "b">>, <<" ">>}

\* The lines ls with a line break between them
RECURSIVE JoinLines(_)
JoinLines(ls) ==
    IF Len(ls) = 1 THEN ls[1] ELSE ls[1] \o <<"\n">> \o JoinLines(Tail(ls))

\* The payloads of one to MaxLines lines
LineSeqs == UNION {[1..n -> LineTexts] : n \in 1..MaxLines}
ManyLinePayloads == {JoinLines(ls) : ls \in LineSeqs}

\* The payloads the decoder reads in this session
ParserInputs ==
    ThreePartPayloads \cup {DoeJohnUsa} \cup LabeledPayloads \cup HalfLabeledPayloads
        \cup JsonPayloads \cup LinePayloads \cup Payloads \cup ManyLinePayloads
        \cup JsonMisses \cup FourPartPayloads \cup TwoCommaPayloads \cup {PayloadABCD}

ParseUser ==
    /\ Ready
    /\ lastScannedCode = NULL
    /\ \E qrData \in ParserInputs : handleQRDetected(qrData)

ParseResponses ==
    \E t \in BagToSet(tasks) :
        \/ LoadResponse(t)
        \/ SaveResponse(t)
        \/ TestApiResponse(t)

NextParse == RaceCamera \/ ParseUser \/ RaceApi \/ ParseResponses \/ Timers

SpecParse == Init /\ [][NextParse]_vars

----------------------------------------------------------------------------
(* The session in which the names and countries hold double quotes and the
   user exports the records, with the Export button or when stopping. *)

\* The payloads of the name '"a' with the country '"', and of the name
\* 'a"b"' with the country 'c'
PayloadQuotes == <<"\"", "a", ",", "\"">>
PayloadQuoted == <<"a", "\"", "b", "\"", ",", "c">>
ExportInputs == {PayloadQuotes, PayloadQuoted}

ExportUser ==
    /\ Ready
    /\ \/ \E qrData \in ExportInputs : handleQRDetected(qrData)
       \/ exportToCSV

ExportResponses ==
    \E t \in BagToSet(tasks) :
        \/ LoadResponse(t)
        \/ SaveResponse(t)
        \/ ExportResponse(t)
        \/ ClearListResponse(t)
        \/ ClearDeleteResponse(t)
        \/ TestApiResponse(t)

NextExport == Camera \/ ExportUser \/ Api \/ ExportResponses \/ Timers

SpecExport == Init /\ [][NextExport]_vars

----------------------------------------------------------------------------
(* The session on a table that holds more records than one GET of
   exportToCSV returns.  Every request succeeds and the user waits for the
   requests in flight. *)

\* The sizes of the table: empty, one record, and more than the limit of the
\* GET of exportToCSV
BulkSizes == {n \in 0..MaxBulk : n <= 1 \/ n > BulkLimit}

InitBulk ==
    /\ now = 0
    /\ timers = {[due |-> TestApiDelay, what |-> "testAPI"]}
    /\ scanning = FALSE
    /\ stream = "none"
    /\ currentCamera = "environment"
    /\ video = [src |-> "none", pending |-> FALSE, handler |-> "none"]
    /\ scanInterval = FALSE
    /\ intervals = 0
    /\ disabled = [start |-> FALSE, stop |-> TRUE, switch |-> TRUE]
    /\ lastScannedCode = NULL
    /\ lastScanTime = 0
    /\ scannedQRCodes = {}
    /\ useLocalStorage = FALSE
    /\ remote \in {StoredTable(n) : n \in BulkSizes}
    /\ local = <<>>
    /\ table = {}
    /\ tasks = SetToBag({LoadRequest})
    /\ nextId = 0
    /\ event = NoEvent

BulkUser ==
    /\ Ready
    /\ \/ handleQRDetected(PayloadX)
       \/ exportToCSV

BulkResponses ==
    \E t \in BagToSet(tasks) :
        \/ LoadResponse(t)
        \/ SaveResponse(t)
        \/ ExportResponse(t)
        \/ TestApiResponse(t)

NextBulk == RaceCamera \/ BulkUser \/ RaceApi \/ BulkResponses \/ Timers

SpecBulk == InitBulk /\ [][NextBulk]_vars

----------------------------------------------------------------------------
(* The session in which getUserMedia can reject, and the user scans and
   presses the Test button but never the button that clears the
   duplicate-prevention set.  Every request to the API succeeds and the
   user waits for the requests in flight. *)

FallbackCamera ==
    \/ Ready /\ ~CameraRequested /\ StartScanner
    \/ \E t \in BagToSet(tasks) : CameraStarted(t)
    \/ \E t \in BagToSet(tasks) : CameraFailed(t)
    \/ \E t \in BagToSet(tasks) : FallbackStarted(t)
    \/ \E t \in BagToSet(tasks) : FallbackFailed(t)
    \/ LoadedMetadata
    \/ Ready /\ \E download \in BOOLEAN : stopScanner(download)

CameraUser ==
    /\ Ready
    /\ \/ \E qrData \in Payloads : handleQRDetected(qrData)
       \/ addTestRecord

CameraResponses ==
    \E t \in BagToSet(tasks) :
        \/ LoadResponse(t)
        \/ SaveResponse(t)
        \/ ExportResponse(t)
        \/ ClearListResponse(t)
        \/ ClearDeleteResponse(t)
        \/ TestApiResponse(t)

NextCamera == FallbackCamera \/ CameraUser \/ RaceApi \/ CameraResponses \/ Timers

SpecCamera == Init /\ [][NextCamera]_vars

----------------------------------------------------------------------------
(* The session in which the user switches the camera, and starts, stops and
   switches while a camera request is in flight, as long as fewer than
   MaxPolling polling timers are active.  getUserMedia can reject; every
   request to the API succeeds. *)

SwitchingCamera ==
    \/ Overlap /\ ~CameraRequested /\ StartScanner
    \/ \E t \in BagToSet(tasks) : CameraStarted(t)
    \/ \E t \in BagToSet(tasks) : CameraFailed(t)
    \/ \E t \in BagToSet(tasks) : FallbackStarted(t)
    \/ \E t \in BagToSet(tasks) : FallbackFailed(t)
    \/ LoadedMetadata
    \/ Overlap /\ intervals < MaxPolling /\ switchCamera
    \/ \E t \in BagToSet(tasks) : SwitchStarted(t)
    \/ \E t \in BagToSet(tasks) : SwitchFailed(t)
    \/ Overlap /\ \E download \in BOOLEAN : stopScanner(download)

SwitchUser ==
    /\ Ready
    /\ handleQRDetected(PayloadAB)

NextSwitch == SwitchingCamera \/ SwitchUser \/ RaceApi \/ CameraResponses \/ Timers

SpecSwitch == Init /\ [][NextSwitch]_vars

----------------------------------------------------------------------------
(* Properties of the session *)

AllRecords == SeqToSet(remote) \cup SeqToSet(local)

\* Some stored record was made from the payload p
Recorded(p) == \E r \in AllRecords : r.raw_qr_data = p

\* The records of the store the session is using
LiveRecords == IF useLocalStorage THEN SeqToSet(local) ELSE SeqToSet(remote)

\* No request is in flight
Quiescent == tasks = EmptyBag

\* The cooldown of payload p is running
Cooldown(p) == lastScannedCode = p /\ now - lastScanTime < scanCooldown

\* The step leaves everything but the step label as it is
Silent ==
    UNCHANGED <<now, timers, scanning, cameraVars, lastScannedCode, lastScanTime,
                scannedQRCodes, useLocalStorage, storeVars, table, tasks, nextId>>

\* C1: whenever no request is in flight, a payload is in scannedQRCodes if
\* and only if a record of the store in use was made from it.
C1_SeenIffLive ==
    Quiescent =>
        \A p \in Payloads \cup {TestQR} :
            p \in scannedQRCodes <=> \E r \in LiveRecords : r.raw_qr_data = p

\* C2: handleQRDetected applies its rules in order: a payload whose cooldown
\* is running is suppressed and nothing changes; otherwise a payload of
\* scannedQRCodes is rejected with the duplicate error and nothing changes;
\* otherwise the payload is accepted and becomes the last scanned code.  Every
\* detection gets exactly one of the three outcomes.
C2_DecisionOrder ==
    [][\A p \in Payloads : handleQRDetected(p) =>
          /\ event'.payload = p
          /\ event'.outcome \in {"SUPPRESS_COOLDOWN", "REJECT_DUPLICATE", "ACCEPT"}
          /\ Cooldown(p) =>
                 event'.outcome = "SUPPRESS_COOLDOWN" /\ event'.shown = "none" /\ Silent
          /\ ~Cooldown(p) /\ p \in scannedQRCodes =>
                 event'.outcome = "REJECT_DUPLICATE" /\ event'.shown = "duplicate" /\ Silent
          /\ ~Cooldown(p) /\ p \notin scannedQRCodes =>
                 /\ event'.outcome = "ACCEPT"
                 /\ lastScannedCode' = p /\ lastScanTime' = now /\ ~scanning'
      ]_vars

\* C2, its case: the last scanned payload is read again when its cooldown is
\* over, and the second rule rejects it.
C2_Witness ==
    /\ event.outcome = "REJECT_DUPLICATE"
    /\ lastScannedCode = event.payload
    /\ now - lastScanTime >= scanCooldown

\* C3: a payload that parses is not accepted while a record made from it at
\* least scanCooldown ago is stored.
C3_NoSecondAccept ==
    ~ /\ event.outcome = "ACCEPT"
      /\ event.shown = "success"
      /\ \E r \in AllRecords :
             r.raw_qr_data = event.payload /\ now - r.created_at >= scanCooldown

\* A save of payload p is in flight
Saving(p) == \E t \in BagToSet(tasks) : t.op = "save" /\ t.rec.raw_qr_data = p

\* C4: the answer to a load removes from scannedQRCodes no payload whose
\* record is stored or on its way to the store.
C4_LateLoadKeepsAccepted ==
    [][\A t \in BagToSet(tasks) : LoadResponse(t) =>
          \A p \in scannedQRCodes : (Recorded(p) \/ Saving(p)) => p \in scannedQRCodes'
      ]_vars

\* C5: whenever no request is in flight, every payload of scannedQRCodes has
\* a stored record: a payload whose record was deleted has left the set.
C5_DeletedLeavesSet ==
    Quiescent => \A p \in scannedQRCodes : Recorded(p)

C7_AcceptAddsPayload ==
    event.outcome = "ACCEPT" =>
        /\ event.payload \in scannedQRCodes
        /\ lastScannedCode = event.payload
        /\ lastScanTime = now

\* C7, amended: an accepted payload is the last scanned code and its time is
\* the last scan time; it is in scannedQRCodes exactly when its parse gave a
\* name and a country.
C7_AcceptUpdates ==
    event.outcome = "ACCEPT" =>
        /\ lastScannedCode = event.payload
        /\ lastScanTime = now
        /\ event.payload \in scannedQRCodes <=> Complete(parseQRContent(event.payload))

\* C7, its case: a payload that does not parse has been accepted.
C7_Witness ==
    /\ event.outcome = "ACCEPT"
    /\ event.shown = "invalid"
    /\ lastScannedCode = event.payload
    /\ event.payload \notin scannedQRCodes

\* C8: the acceptance of a payload whose parse gives no name or no country
\* shows the invalid-format error, creates and sends no record and leaves
\* scannedQRCodes as it is, without the payload.
C8_ParseFailure ==
    [][\A p \in Payloads :
          (/\ handleQRDetected(p)
           /\ event'.outcome = "ACCEPT"
           /\ ~Complete(parseQRContent(p))) =>
              /\ event'.shown = "invalid"
              /\ event'.shown # "duplicate"
              /\ UNCHANGED <<nextId, tasks, storeVars, scannedQRCodes, table>>
              /\ p \notin scannedQRCodes'
      ]_vars

\* C8, its case: a payload with a name and a blank country has been accepted
\* and the invalid-format error is shown.
C8_Witness ==
    /\ event.outcome = "ACCEPT"
    /\ event.shown = "invalid"
    /\ event.payload = PayloadA
    /\ parseQRContent(PayloadA) = Identity(<<"a">>, <<>>)

\* C9: no record made from a decoded payload is stored in both stores.
C9_OneStore ==
    \A r \in SeqToSet(remote) :
        r.raw_qr_data \in Payloads => \A l \in SeqToSet(local) : l.id # r.id

\* C10: useLocalStorage, once true, stays true.
C10_ChoiceRemembered == [][useLocalStorage => useLocalStorage']_vars

----------------------------------------------------------------------------
(* Stop and reset *)

\* The step in which the stopScanner() the user has confirmed returns: the
\* end of its clearAllAttendance(), in the local branch or after the last
\* DELETE of the loop over the records.
StopCompletes ==
    \/ stopScanner(TRUE) /\ scannedQRCodes # {} /\ useLocalStorage
    \/ \E t \in BagToSet(tasks) :
           ExportResponse(t) /\ t.cont = "stop" /\ useLocalStorage'
    \/ \E t \in BagToSet(tasks) :
           ClearListResponse(t) /\ (useLocalStorage' \/ t.data = <<>>)
    \/ \E t \in BagToSet(tasks) : ClearDeleteResponse(t) /\ t.data = <<>>

\* C11: when the stopScanner() the user has confirmed returns, the store in
\* use holds no attendance record and scannedQRCodes is empty.
C11_PerfectReset ==
    [][StopCompletes => scannedQRCodes' = {} /\ LiveRecords' = {}]_vars

\* C12: a stopScanner() called while the store in use holds a record asks
\* the user whether to download the CSV and clear the data (the prompt is
\* shown when scannedQRCodes is not empty); "No attendance records to
\* export" is the outcome only when the store holds no record.
C12_PromptWhenRecords ==
    [][(\E download \in BOOLEAN : stopScanner(download)) /\ LiveRecords # {}
           => scannedQRCodes # {}]_vars

\* C13: while the scanner is stopped (no stream since the page was loaded or
\* since stopScanner), the scanning flag is false.
C13_StoppedNotScanning == stream = "none" => ~scanning

----------------------------------------------------------------------------
(* The scanning loop *)

\* C14: after every detection, whatever its outcome (a record created, a
\* parse failure, a duplicate rejection, a cooldown suppression), the
\* scanning flag is true again at some later point, unless the scanner is
\* stopped meanwhile.
C14_LoopResumes ==
    (event.outcome \in {"ACCEPT", "REJECT_DUPLICATE", "SUPPRESS_COOLDOWN"})
        ~> (scanning \/ stream = "none")

\* C14, its case: the pause that follows an accept which created a record
C14_Witness ==
    /\ event.outcome = "ACCEPT"
    /\ event.shown = "success"
    /\ ~scanning
    /\ stream # "none"
    /\ \E tm \in timers : tm.what = "resume" /\ tm.due > now

----------------------------------------------------------------------------
(* Loads and records *)

\* C15: when loadAttendanceRecords() ends with no request left in flight,
\* scannedQRCodes is the set of the raw_qr_data of the records of the store
\* in use, whatever the number of records.
C15_LoadRebuildsSet ==
    [][\A t \in BagToSet(tasks) :
          LoadResponse(t) /\ tasks' = EmptyBag =>
              scannedQRCodes' = {r.raw_qr_data : r \in LiveRecords'}]_vars

\* The step is a confirmed deleteRecord for the id of record r (its local
\* branch, its DELETE reaching the API, or its fallback to localStorage) or
\* a part of the bulk clear of clearAllAttendance
Removes(r) ==
    \/ deleteRecord(r.id, TRUE)
    \/ \E t \in BagToSet(tasks) :
           \/ ApiServes(t) /\ t.op \in {"delete", "clearDelete"} /\ t.id = r.id
           \/ DeleteResponse(t) /\ t.id = r.id
           \/ ExportResponse(t) /\ t.cont = "stop"
           \/ ClearListResponse(t)
    \/ stopScanner(TRUE)

\* C16: a stored record stays in its store as it is in every step, except
\* in the steps of a confirmed deleteRecord for its id and of the bulk clear.
C16_RecordsImmutable ==
    [][/\ \A r \in SeqToSet(remote) : r \in SeqToSet(remote') \/ Removes(r)
       /\ \A r \in SeqToSet(local) : r \in SeqToSet(local') \/ Removes(r)]_vars

\* C16, its case: a record is stored and a later detection is accepted;
\* both records are in the table.
C16_Witness ==
    /\ Len(remote) = 2
    /\ remote[1].raw_qr_data \in Payloads
    /\ remote[1].created_at < remote[2].created_at

----------------------------------------------------------------------------
(* parseQRContent on the payloads the decoder reads *)

\* C17: for a payload "X,Y,Z" parseQRContent returns the name
\* trim(X) + ", " + trim(Y) and the country trim(Z).
C17_ThreePartResult ==
    \A x \in Parts, y \in Parts, z \in Parts :
        event.outcome = "ACCEPT" /\ event.payload = ThreePart(x, y, z) =>
            event.parsed = Identity(Trim(x) \o CommaSpace \o Trim(y), Trim(z))

\* The result of the first strategy, in the order three-part, labeled,
\* two-part, structured, multi-line, that matches the payload p
InOrder(p) ==
    IF ThreePartMatch(p).matched THEN ThreePartMatch(p).identity
    ELSE IF LabeledMatch(p).matched THEN LabeledMatch(p).identity
    ELSE IF SimpleMatch(p).matched THEN SimpleMatch(p).identity
    ELSE IF JsonMatch(p).matched THEN JsonMatch(p).identity
    ELSE IF MultiLine(p).matched THEN MultiLine(p).identity
    ELSE EmptyIdentity

\* C18: parseQRContent returns the result of the first strategy that
\* matches, in the order three-part, labeled, two-part, structured,
\* multi-line; "DOE, John, USA", which the two-part pattern matches too, is
\* resolved by the three-part strategy.
C18_FirstMatchWins ==
    event.outcome = "ACCEPT" =>
        /\ event.parsed = InOrder(event.payload)
        /\ event.payload = DoeJohnUsa =>
               event.parsed = Identity(<<"D","O","E",","," ","J","o","h","n">>,
                                       <<"U","S","A">>)

\* C18, its case: "DOE, John, USA" has been read; the three-part and the
\* two-part pattern both match it, with different results.
C18_Witness ==
    /\ event.outcome = "ACCEPT"
    /\ event.payload = DoeJohnUsa
    /\ ThreePartMatch(DoeJohnUsa).matched
    /\ SimpleMatch(DoeJohnUsa).matched
    /\ SimpleMatch(DoeJohnUsa).identity # ThreePartMatch(DoeJohnUsa).identity

\* C19: for a JSON object text with the fields name and country
\* parseQRContent returns the two values; for one with the fields lastName,
\* firstName and country it returns lastName + ", " + firstName and country.
C19_StructuredResult ==
    event.outcome = "ACCEPT" =>
        \A sep \in JsonSeparators, close \in JsonClosings :
            /\ (event.payload = NameCountryJson(<<"a">>, <<"b">>, sep, close)) =>
                   (event.parsed = Identity(<<"a">>, <<"b">>))
            /\ (event.payload = LastFirstJson(<<"a">>, <<"b">>, <<"c">>, sep, close)) =>
                   (event.parsed = Identity(<<"a", ",", " ", "b">>, <<"c">>))

\* Does the payload p hold both labels of the labeled form?
BothLabels(p) ==
    HasLabel(p, Str_name \o <<":">>) /\ HasLabel(p, Str_country \o <<":">>)

\* C20: for a payload "Name:<v1>, Country:<v2>", the labels in any case,
\* parseQRContent returns the name trim(v1) and the country trim(v2); the
\* labeled strategy matches no payload that lacks one of the two labels.
C20_LabeledResult ==
    event.outcome = "ACCEPT" =>
        /\ \A l1 \in NameLabels, l2 \in CountryLabels :
               \A v1 \in LabeledValues, v2 \in LabeledValues :
                   (event.payload = Labeled(l1, v1, l2, v2)) =>
                       (event.parsed = Identity(Trim(v1), Trim(v2)))
        /\ (~BothLabels(event.payload)) => (~LabeledMatch(event.payload).matched)

NotBlank(line) == Trim(line) # <<>>

\* C21, as stated: a payload of lines gives an identity only when it has
\* exactly three or exactly two lines that are not blank; with one or with
\* four and more it gives the empty identity.
C21_ExactLines ==
    event.outcome = "ACCEPT" =>
        \A ls \in LineSeqs :
            (event.payload = JoinLines(ls)) =>
                LET lines == SelectSeq(ls, NotBlank)
                IN  event.parsed =
                        IF Len(lines) = 3
                        THEN Identity(Trim(lines[1]) \o CommaSpace \o Trim(lines[2]),
                                      Trim(lines[3]))
                        ELSE IF Len(lines) = 2
                        THEN Identity(Trim(lines[1]), Trim(lines[2]))
                        ELSE EmptyIdentity

\* C21, amended: three and more lines that are not blank give the name
\* line0 + ", " + line1 and the country line2, the further lines being
\* ignored; exactly two give the name line0 and the country line1; fewer
\* than two give the empty identity.
C21_AtLeastThreeLines ==
    event.outcome = "ACCEPT" =>
        \A ls \in LineSeqs :
            (event.payload = JoinLines(ls)) =>
                LET lines == SelectSeq(ls, NotBlank)
                IN  event.parsed =
                        IF Len(lines) >= 3
                        THEN Identity(Trim(lines[1]) \o CommaSpace \o Trim(lines[2]),
                                      Trim(lines[3]))
                        ELSE IF Len(lines) = 2
                        THEN Identity(Trim(lines[1]), Trim(lines[2]))
                        ELSE EmptyIdentity

\* C21, its case: a payload of four lines, none of them blank, has been read
\* and a record is made from its first three lines.
C21_Witness ==
    /\ event.outcome = "ACCEPT"
    /\ event.payload = JoinLines(<<<<"a">>, <<" ", "b">>, <<"a">>, <<" ", "b">>>>)
    /\ event.parsed = Identity(<<"a", ",", " ", "b">>, <<"a">>)
    /\ event.shown = "success"

\* None of the three patterns matches the payload p
NoPattern(p) ==
    ~ThreePartMatch(p).matched /\ ~LabeledMatch(p).matched /\ ~SimpleMatch(p).matched

\* C22: parseQRContent returns an identity, a name and a country that are
\* strings, for every payload; a text JSON.parse or the reads of strategy 4
\* fail on goes on to strategy 5, and a payload no strategy matches gives
\* the empty identity.
C22_Total ==
    event.outcome = "ACCEPT" =>
        /\ DOMAIN event.parsed = {"name", "country"}
        /\ event.parsed.name \in Seq(STRING)
        /\ event.parsed.country \in Seq(STRING)
        /\ (NoPattern(event.payload) /\ ~JsonParse(event.payload).ok) =>
               (event.parsed = IF MultiLine(event.payload).matched
                               THEN MultiLine(event.payload).identity
                               ELSE EmptyIdentity)
        /\ (NoPattern(event.payload) /\ ~JsonMatch(event.payload).matched
                /\ ~MultiLine(event.payload).matched) =>
               (event.parsed = EmptyIdentity)

\* C22, its case: the payload "null" has been read: JSON.parse accepts it,
\* the read of jsonData.name throws, and the payload is shown as invalid.
C22_Witness ==
    /\ event.outcome = "ACCEPT"
    /\ event.payload = Str_null
    /\ JsonParse(Str_null).ok
    /\ event.parsed = EmptyIdentity
    /\ event.shown = "invalid"

\* C29: a payload is split at its first commas only.  "X,Y,Z,W" gives the
\* name trim(X) + ", " + trim(Y) and the country trim(Z + "," + W), so
\* "A, B, C, D" gives "A, B" and "C, D"; "X,,Y", which the three-part pattern
\* does not match, gives the name trim(X) and the country trim("," + Y).
C29_FirstCommasOnly ==
    event.outcome = "ACCEPT" =>
        /\ \A x \in CommaParts, y \in CommaParts :
               /\ \A z \in CommaParts, w \in CommaParts :
                      (event.payload = FourPart(x, y, z, w)) =>
                          (event.parsed = Identity(Trim(x) \o CommaSpace \o Trim(y),
                                                   Trim(z \o <<",">> \o w)))
               /\ (event.payload = TwoCommas(x, y)) =>
                      (event.parsed = Identity(Trim(x), Trim(<<",">> \o y)))
        /\ (event.payload = PayloadABCD) =>
               (event.parsed = Identity(<<"A", ",", " ", "B">>, <<"C", ",", " ", "D">>))

\* C29, its case: "A, B, C, D" has been read and saved with a country that
\* holds a comma.
C29_Witness ==
    /\ event.outcome = "ACCEPT"
    /\ event.payload = PayloadABCD
    /\ event.shown = "success"
    /\ IndexOf(event.parsed.country, ",") # 0

----------------------------------------------------------------------------
(* The records the session creates *)

\* The records that exist: stored, or on their way to the API
Created ==
    AllRecords \cup {t.rec : t \in {x \in BagToSet(tasks) : x.op = "save"}}

\* C28: every record has a name and a country that are not empty, which are
\* what parseQRContent returns for its raw_qr_data; an accept makes a record
\* of exactly the payload read when the parse gives both, and none when the
\* name or the country is empty.
C28_RecordsWellFormed ==
    /\ \A r \in Created :
           /\ r.name # <<>>
           /\ r.country # <<>>
           /\ parseQRContent(r.raw_qr_data) = Identity(r.name, r.country)
    /\ event.outcome = "ACCEPT" =>
           IF event.parsed.name # <<>> /\ event.parsed.country # <<>>
           THEN \E r \in Created :
                    /\ r.raw_qr_data = event.payload
                    /\ r.name = event.parsed.name
                    /\ r.country = event.parsed.country
           ELSE \A r \in Created : r.raw_qr_data # event.payload

\* C28, its case: a record is stored whose payload starts or ends with a
\* blank or a line break, kept as it was read.
C28_Witness ==
    \E r \in SeqToSet(remote) :
        /\ r.raw_qr_data # Trim(r.raw_qr_data)
        /\ r.name # <<>>
        /\ r.country # <<>>

----------------------------------------------------------------------------
(* The cooldown and the duplicate rule *)

\* C26: a detection of the last accepted payload less than 3000 ms after
\* it was accepted is suppressed by the cooldown rule.
C26_ThreeSeconds ==
    [][\A p \in Payloads :
          handleQRDetected(p) /\ lastScannedCode = p
                /\ now - lastScanTime < ReadmeCooldown =>
              event'.outcome = "SUPPRESS_COOLDOWN"]_vars

\* C27: a detection rejected as a duplicate shows the duplicate error, which
\* is not the one of a parse failure, and changes nothing else: no record,
\* no request, and scannedQRCodes, lastScannedCode, lastScanTime, the stores
\* and the scanning flag as they were.
C27_DuplicateChangesNothing ==
    [][\A p \in Payloads :
          handleQRDetected(p) /\ event'.outcome = "REJECT_DUPLICATE" =>
              /\ event'.shown = "duplicate"
              /\ event'.shown # Shown(PayloadX)
              /\ UNCHANGED <<scannedQRCodes, lastScannedCode, lastScanTime, remote,
                             local, scanning, nextId, tasks, table, timers>>]_vars

\* C27, its case: a payload with a stored record is rejected as a duplicate
\* while the scanner goes on scanning.
C27_Witness ==
    /\ event.outcome = "REJECT_DUPLICATE"
    /\ event.shown = "duplicate"
    /\ scanning
    /\ \E r \in LiveRecords : r.raw_qr_data = event.payload

----------------------------------------------------------------------------
(* The CSV export *)

\* "No.,Name,Country,Scan Date,Scan Time,Full Timestamp"
HeaderRow ==
    <<"N", "o", ".", ",", "N", "a", "m", "e", ",", "C", "o", "u", "n", "t", "r", "y", ",", "S", "c", "a", "n", " ", "D", "a", "t", "e", ",", "S", "c", "a", "n", " ", "T", "i", "m", "e", ",", "F", "u", "l", "l", " ", "T", "i", "m", "e", "s", "t", "a", "m", "p">>

\* The field is wrapped in double quotes
Wrapped(field) ==
    /\ Len(field) >= 2
    /\ field[1] = "\""
    /\ field[Len(field)] = "\""

\* What the wrapping quotes of a field enclose
Inner(field) == SubSeq(field, 2, Len(field) - 1)

\* The double quotes of s that end at position i without a break
QuotesUpTo(s, i) ==
    CHOOSE k \in 0..i :
        /\ \A j \in (i - k + 1)..i : s[j] = "\""
        /\ k = i \/ s[i - k] # "\""

\* Every double quote of s is one of a pair
QuotesInPairs(s) ==
    \A i \in 1..Len(s) :
        (s[i] = "\"" /\ (i = Len(s) \/ s[i + 1] # "\"")) => QuotesUpTo(s, i) % 2 = 0

\* C23, as stated: the CSV of an export starts with the header row
\* No.,Name,Country,Scan Date,Scan Time,Full Timestamp, and every field of
\* every data row is wrapped in double quotes, the double quotes inside
\* doubled.
C23_EveryFieldQuoted ==
    event.csv # <<>> =>
        /\ Joined(event.csv[1], <<",">>) = HeaderRow
        /\ \A i \in 2..Len(event.csv) :
               \A k \in 1..Len(event.csv[i]) :
                   /\ Wrapped(event.csv[i][k])
                   /\ QuotesInPairs(Inner(event.csv[i][k]))

\* C23, amended: the CSV of an export starts with the header row, and every
\* data row has six fields: the row number in bare decimal digits, then
\* five fields wrapped in double quotes, the double quotes inside doubled.
C23_AllButNumberQuoted ==
    event.csv # <<>> =>
        /\ Joined(event.csv[1], <<",">>) = HeaderRow
        /\ \A i \in 2..Len(event.csv) :
               /\ Len(event.csv[i]) = 6
               /\ Len(event.csv[i][1]) > 0
               /\ \A j \in 1..Len(event.csv[i][1]) : event.csv[i][1][j] \in Digits
               /\ \A k \in 2..6 :
                      /\ Wrapped(event.csv[i][k])
                      /\ QuotesInPairs(Inner(event.csv[i][k]))

\* C23, its case: an export has written a row whose name or country holds
\* a double quote.
C23_Witness ==
    /\ event.outcome = "EXPORT"
    /\ \E i \in 2..Len(event.csv) :
           \E k \in 2..3 : \E j \in 1..Len(Inner(event.csv[i][k])) :
               Inner(event.csv[i][k])[j] = "\""

\* The row is the row of the record, but for its number
RowOf(row, record) ==
    /\ row[2] = CsvQuoted(DoubleQuotes(record.name))
    /\ row[3] = CsvQuoted(DoubleQuotes(record.country))
    /\ row[4] = CsvQuoted(toLocaleDateString(record.scan_timestamp))
    /\ row[5] = CsvQuoted(toLocaleTimeString(record.scan_timestamp))
    /\ row[6] = CsvQuoted(toLocaleString(record.scan_timestamp))

\* The CSV has one data row for each of the records, the rows of later
\* records first, numbered from 1 in the order they have
ExportedFrom(records, csv) ==
    /\ Len(csv) = Len(records) + 1
    /\ \A i \in 1..Len(records) : csv[i + 1][1] = Decimal(i)
    /\ \E f \in Permutations(1..Len(records)) :
           /\ \A i \in 1..Len(records) : RowOf(csv[i + 1], records[f[i]])
           /\ \A i \in 1..(Len(records) - 1) :
                  records[f[i]].scan_timestamp >= records[f[i + 1]].scan_timestamp

\* C24: a step that ends an export of a store that holds records writes a
\* CSV with one data row for every record of the store in use, ordered by
\* scan_timestamp newest first, the No. column numbering the rows 1..n in
\* that order.
C24_OneRowPerRecord ==
    [][event'.outcome = "EXPORT" =>
          IF useLocalStorage'
          THEN Len(local) > 0 => ExportedFrom(local, event'.csv)
          ELSE Len(remote) > 0 => ExportedFrom(remote, event'.csv)]_vars

\* C24, its case: an export has written two rows of records scanned at
\* different times.
C24_Witness ==
    /\ event.outcome = "EXPORT"
    /\ Len(event.csv) = 3
    /\ event.csv[2][5] # event.csv[3][5]

----------------------------------------------------------------------------
(* The camera fallback *)

C30_NoTwoRecordsOfOnePayload ==
    \A r1 \in LiveRecords : \A r2 \in LiveRecords :
        r1.raw_qr_data = r2.raw_qr_data => r1 = r2

----------------------------------------------------------------------------
(* Export before reset *)

\* The record has a row in the CSV
InCsv(record, csv) == \E i \in 2..Len(csv) : RowOf(csv[i], record)

\* C31: every record that the clearAllAttendance() of a confirmed stop
\* removes, from the remote table or from localStorage, has a row in the
\* CSV that the exportToCSV() of that stop has written; when that export
\* has written no CSV, no record is removed.
C31_ClearedOnlyIfExported ==
    [][/\ \A t \in BagToSet(tasks) :
              (t.op = "clearDelete" /\ t.phase = "sent") =>
                  \A r \in SeqToSet(remote) \ SeqToSet(remote') :
                      r.id = t.id => InCsv(r, t.exported)
       /\ \A t \in BagToSet(tasks) :
              ClearListResponse(t) =>
                  \A r \in SeqToSet(local) \ SeqToSet(local') : InCsv(r, t.exported)
       /\ \A t \in BagToSet(tasks) :
              (ExportResponse(t) /\ t.cont = "stop") =>
                  \A r \in SeqToSet(local) \ SeqToSet(local') : InCsv(r, event'.csv)
       /\ (\E download \in BOOLEAN : stopScanner(download)) =>
              \A r \in SeqToSet(local) \ SeqToSet(local') : InCsv(r, event'.csv)]_vars

----------------------------------------------------------------------------
(* The report of a deletion *)

\* The status line reports the record as deleted
ReportsDeleted == event'.shown \in {"deleted", "deletedOffline"}

\* C32: a step of deleteRecord that reports the record as deleted leaves no
\* record of that id in the store the deletion was made in: localStorage
\* when deleteRecord ran in offline mode, the remote table when it has sent
\* a DELETE, whether the DELETE succeeded or failed; and when the user
\* declines the confirmation, nothing changes.
C32_DeletedWhenReported ==
    [][/\ \A t \in BagToSet(tasks) :
              (DeleteResponse(t) /\ ReportsDeleted) =>
                  \A r \in SeqToSet(remote') : r.id # t.id
       /\ \A recordId \in 1..MaxRecords :
              (deleteRecord(recordId, TRUE) /\ ReportsDeleted) =>
                  \A r \in SeqToSet(local') : r.id # recordId
       /\ \A recordId \in 1..MaxRecords :
              (deleteRecord(recordId, FALSE) /\ ~deleteRecord(recordId, TRUE)) =>
                  Silent]_vars

----------------------------------------------------------------------------
(* Switching the camera *)

\* C33: at most one polling timer is active, and none while the scanner is
\* stopped (from stopScanner until the camera has started again).
C33_OnePollingTimer ==
    /\ intervals <= 1
    /\ disabled.stop => intervals = 0

\* C34: from stopScanner until the next start the session holds no camera
\* stream: while the Stop button is disabled and no startScanner() is
\* waiting for a camera, stream is null.
C34_NoStreamWhenStopped ==
    (disabled.stop /\ ~CameraRequested) => stream = "none"

\* C35: whenever the session holds a live camera stream, currentCamera is
\* the facing mode the stream was acquired with.
C35_CameraMatchesStream ==
    stream \notin {"none", "ended"} => currentCamera = stream


====
